---- MODULE Spec2Model ----
(***************************************************************************)
(* Model of the screenshot ingestion pipeline of cloneheroer:              *)
(*   backend/internal/watcher/watcher.go  (directory watcher, mover)       *)
(*   backend/cmd/server/main.go           (processFile, the handler)       *)
(*   backend/internal/parser/parser.go    (loadImage's extension gate)     *)
(*                                                                         *)
(* File names and paths are sequences of one-character strings, so that    *)
(* filepath.Ext, strings.ToLower, filepath.Join and filepath.Base are      *)
(* computed as the Go library computes them.                               *)
(***************************************************************************)
EXTENDS Integers, Sequences, FiniteSets, TLC

(***************************************************************************)
(* Bounds of the model.                                                    *)
(***************************************************************************)
\* number of bytes of a completely written screenshot
FullLen == 2
\* files the screenshot producer creates while the watcher runs
MaxCreated == 1
\* files already in the watch directory when Start is called
MaxExisting == 1
\* capacity of the notification queue in front of watchLoop
MaxQueue == 1
\* poll cycles in a row whose os.ReadDir fails
MaxReadDirFail == 1

(***************************************************************************)
(* Strings.                                                                *)
(***************************************************************************)
UpperCase == <<"A","B","C","D","E","F","G","H","I","J","K","L","M",
               "N","O","P","Q","R","S","T","U","V","W","X","Y","Z">>

LowerCase == <<"a","b","c","d","e","f","g","h","i","j","k","l","m",
               "n","o","p","q","r","s","t","u","v","w","x","y","z">>

Range(s) == {s[i] : i \in DOMAIN s}

SetMax(S) == CHOOSE x \in S : \A y \in S : y <= x

\* strings.ToLower on one character (ASCII letters)
ToLowerChar(c) ==
    IF c \in Range(UpperCase)
    THEN LowerCase[CHOOSE i \in DOMAIN UpperCase : UpperCase[i] = c]
    ELSE c

\* strings.ToLower
ToLower(s) == [i \in DOMAIN s |-> ToLowerChar(s[i])]

\* filepath.Ext: the suffix beginning at the final dot of the final path
\* element, empty when that element has no dot
Ext(path) ==
    LET dots == {i \in DOMAIN path :
                    /\ path[i] = "."
                    /\ \A j \in i..Len(path) : path[j] # "/"}
    IN IF dots = {} THEN <<>> ELSE SubSeq(path, SetMax(dots), Len(path))

\* filepath.Join of a clean directory and a file name
Join(dir, name) == dir \o <<"/">> \o name

\* filepath.Base of a clean path with a non-empty final element
Base(path) ==
    LET seps == {i \in DOMAIN path : path[i] = "/"}
    IN IF seps = {} THEN path ELSE SubSeq(path, SetMax(seps) + 1, Len(path))

\* isImageFile with the extension compared without strings.ToLower
isImageFileCaseSensitive(filename) ==
    Ext(filename) \in { <<".","p","n","g">>, <<".","j","p","g">>,
                        <<".","j","p","e","g">>, <<".","w","e","b","p">> }

\* isImageFile accepting every name that has an extension
isImageFileAnyExt(filename) == Ext(filename) # <<>>

\* isImageFile (watcher.go)
isImageFile(filename) ==
    LET ext == ToLower(Ext(filename))
    IN \/ ext = <<".","p","n","g">>
       \/ ext = <<".","j","p","g">>
       \/ ext = <<".","j","p","e","g">>
       \/ ext = <<".","w","e","b","p">>

\* loadImage's gate (parser.go): only PNG files are accepted
isPNG(path) == ToLower(Ext(path)) = <<".","p","n","g">>


(***************************************************************************)
(* Configuration and name space.                                           *)
(***************************************************************************)
\* Watcher.watchDir after normalizePath
watchDir == <<"/","w">>

\* the value of PROCESSED_DIR when it is configured
ProcessedPath == <<"/","p">>

\* the value of FAILED_DIR when it is configured
FailedPath == <<"/","f">>

\* the unset directory (the empty string)
NoDir == <<>>

DirSet == {watchDir, ProcessedPath, FailedPath}

\* file names the screenshot producer may use, in the byte order in which
\* os.ReadDir returns directory entries
NameList == << <<"B",".","P","N","G">>,
               <<"c",".","j","p","g">>,
               <<"n",".","t","x","t">> >>

Names == Range(NameList)

\* the bytes of a completely written screenshot
FileBytes == [i \in 1..FullLen |-> i]

Prefix(k) == SubSeq(FileBytes, 1, k)

Absent == [exists |-> FALSE, data |-> <<>>]

File(d) == [exists |-> TRUE, data |-> d]

\* an older file of the same base name left in a destination directory
Stale == File(<<0>>)

\* os.ReadDir: the names present in a directory, sorted by file name
ReadDir(dirFiles) == SelectSeq(NameList, LAMBDA n : dirFiles[n].exists)

\* the three goroutines: Start runs processExistingFiles and then launches
\* watchLoop and pollLoop
Threads == {"Start", "watchLoop", "pollLoop"}

Loops == {"watchLoop", "pollLoop"}

NoName == <<>>

NoMove == [dest |-> NoDir, size |-> 0, orig |-> <<>>, via |-> "none",
           err |-> "none"]

(***************************************************************************)
(* State.                                                                  *)
(***************************************************************************)
VARIABLES
    processedDir,   \* Watcher.processedDir ("" when not configured)
    failedDir,      \* Watcher.failedDir ("" when not configured)
    fs,             \* the file system: directory -> name -> file
    born,           \* names the producer has used so far
    existing,       \* names of the files present when Start was called
    processed,      \* Watcher.processed: the set of handled paths
    subscribed,     \* watcher.Add(watchDir) has succeeded
    events,         \* watcher.Events: pending notifications
    readDirFails,   \* poll cycles in a row whose directory listing failed
    ctxDone,        \* the context passed to Start has been cancelled
    closed,         \* Watcher.Close has been called
    pc,             \* position of each goroutine
    cur,            \* the file name a goroutine is handling
    entries,        \* the directory entries a goroutine still has to visit
    res,            \* result of onNewFile in the current handleFile call
    waited,         \* milliseconds slept since the current file was detected
    mv,             \* the current moveFile call of a goroutine
    state,          \* history: FileState per file name
    scored,         \* history: the names for which a score was stored
    db,             \* the committed rows of the database
    tx,             \* the CreateScore call in progress and its transaction
    arg,            \* the argument of a parser function under study
    out             \* what that function returned for arg

vars == <<processedDir, failedDir, fs, born, existing, processed, subscribed,
          events, readDirFails, ctxDone, closed, pc, cur, entries,
          res, waited, mv, state, scored, db, tx, arg, out>>

\* the repository and the parser functions studied on their own; no step
\* of the watcher touches them (the handler's outcome is all it sees)
detached == <<db, tx, arg, out>>

\* what no step of the watcher changes
config == <<processedDir, failedDir, existing, detached>>

env == <<born>>

chans == <<subscribed, events, closed>>

locals == <<cur, entries, res, waited, mv>>

hist == <<state, scored>>

\* contents a file in the watch directory can have
Contents == {Prefix(k) : k \in 1..FullLen}

\* the watch directories Start can find: at most MaxExisting files with the
\* given contents
WatchDirs(contents) ==
    {d \in [Names -> {Absent} \cup {File(c) : c \in contents}] :
        Cardinality({n \in Names : d[n].exists}) <= MaxExisting}

EmptyDir == [n \in Names |-> Absent]

\* the repository and the parser at rest
Detached ==
    /\ db = <<>>
    /\ tx = <<>>
    /\ arg = <<>>
    /\ out = <<>>

\* NewWatcher: an empty handled set, no goroutine running
Init ==
    /\ Detached
    /\ processedDir \in {NoDir, ProcessedPath}
    /\ failedDir \in {NoDir, FailedPath}
    /\ \E d \in WatchDirs({FileBytes}) :
          /\ fs = [dir \in DirSet |-> IF dir = watchDir THEN d ELSE EmptyDir]
          /\ born = {n \in Names : d[n].exists}
          /\ existing = {n \in Names : d[n].exists}
    /\ processed = {}
    /\ subscribed = FALSE
    /\ events = <<>>
    /\ readDirFails = 0
    /\ ctxDone = FALSE
    /\ closed = FALSE
    /\ pc = [t \in Threads |-> IF t = "Start" THEN "start" ELSE "idle"]
    /\ cur = [t \in Threads |-> NoName]
    /\ entries = [t \in Threads |-> <<>>]
    /\ res = [t \in Threads |-> "none"]
    /\ waited = [t \in Threads |-> 0]
    /\ mv = [t \in Threads |-> NoMove]
    /\ state = [n \in Names |-> "None"]
    /\ scored = {}

(***************************************************************************)
(* The notification backend (fsnotify) and the screenshot producer.        *)
(***************************************************************************)
\* the queues that can result from a file system change: the notification
\* is delivered when the directory is watched and the queue has room, and
\* may also be lost
Emit(q, n, op) ==
    {q} \cup (IF subscribed /\ ~closed /\ Len(q) < MaxQueue
              THEN {Append(q, [name |-> n, op |-> op])}
              ELSE {})

\* the producer creates a screenshot under a name it has not used before
CreateFile(n, k) ==
    /\ n \notin born
    /\ Cardinality(born \ existing) < MaxCreated
    /\ born' = born \cup {n}
    /\ fs' = [fs EXCEPT ![watchDir][n] = File(Prefix(k))]
    /\ events' \in Emit(events, n, "CREATE")
    /\ UNCHANGED <<config, processed, subscribed,
                   readDirFails, ctxDone, closed, pc, locals, hist>>

\* the producer writes the next byte of a file that is not complete yet
AppendFile(n) ==
    /\ fs[watchDir][n].exists
    /\ Len(fs[watchDir][n].data) < FullLen
    /\ fs' = [fs EXCEPT ![watchDir][n] =
                 File(Prefix(Len(fs[watchDir][n].data) + 1))]
    /\ events' \in Emit(events, n, "WRITE")
    /\ UNCHANGED <<config, born, processed, subscribed,
                   readDirFails, ctxDone, closed, pc, locals, hist>>

\* main.go: cancel() on SIGINT/SIGTERM
Cancel ==
    /\ ~ctxDone
    /\ ctxDone' = TRUE
    /\ UNCHANGED <<config, fs, env, processed, chans, readDirFails, pc,
                   locals, hist>>

\* Watcher.Close: fsnotify closes watcher.Events and watcher.Errors
Close ==
    /\ ~closed
    /\ closed' = TRUE
    /\ events' = <<>>
    /\ UNCHANGED <<config, fs, env, processed, subscribed, readDirFails,
                   ctxDone, pc, locals, hist>>


(***************************************************************************)
(* Start and processExistingFiles.                                         *)
(***************************************************************************)
\* where a goroutine continues after it is done with one file: the scan and
\* the poll cycle go on with the next entry, watchLoop with its select
NextPc(t) == IF t = "watchLoop" THEN "select" ELSE "iter"

\* the path both discovery channels form for a file of the watch directory
PathOf(n) == Join(watchDir, n)

\* time.Sleep between detection and handleFile: 100 ms in
\* processExistingFiles, 500 ms in watchLoop, none in pollLoop
Debounce(t) ==
    IF t = "Start" THEN 100 ELSE IF t = "watchLoop" THEN 500 ELSE 0

\* Start going on to the scan when watcher.Add has failed
StartSetupIgnoresAdd(o) ==
    /\ pc["Start"] = "start"
    /\ o \in {"ok", "mkdir", "add"}
    /\ closed => o # "ok"
    /\ pc' = [pc EXCEPT !["Start"] =
                 IF o = "mkdir" THEN "errMkdir" ELSE "readdir"]
    /\ subscribed' = (o = "ok")
    /\ UNCHANGED <<config, fs, env, processed, events, closed,
                   readDirFails, ctxDone, locals, hist>>

\* Start, up to and including watcher.Add: o is "ok", or the step that
\* failed ("mkdir": one of the os.MkdirAll calls, "add": watcher.Add)
StartSetup(o) ==
    /\ pc["Start"] = "start"
    /\ o \in {"ok", "mkdir", "add"}
    /\ closed => o # "ok"          \* Add on a closed watcher is an error
    /\ pc' = [pc EXCEPT !["Start"] =
                 IF o = "ok" THEN "readdir"
                 ELSE IF o = "mkdir" THEN "errMkdir" ELSE "errAdd"]
    /\ subscribed' = (o = "ok")
    /\ UNCHANGED <<config, fs, env, processed, events, closed,
                   readDirFails, ctxDone, locals, hist>>

\* processExistingFiles: os.ReadDir(w.watchDir); on an error Start only
\* logs a warning and goes on to launch the loops
ScanReadDir(ok) ==
    /\ pc["Start"] = "readdir"
    /\ IF ok
       THEN /\ entries' = [entries EXCEPT !["Start"] = ReadDir(fs[watchDir])]
            /\ pc' = [pc EXCEPT !["Start"] = "iter"]
       ELSE /\ pc' = [pc EXCEPT !["Start"] = "launchUnscanned"]
            /\ UNCHANGED entries
    /\ UNCHANGED <<config, fs, env, processed, chans, readDirFails, ctxDone,
                   cur, res, waited, mv, hist>>

\* one iteration of "for _, entry := range entries" in processExistingFiles
\* (t = "Start") and in pollLoop (t = "pollLoop"): entries without an image
\* extension and paths of the handled set are skipped; for any other entry
\* the goroutine sleeps for Debounce(t) and is then about to call handleFile
IterEntry(t) ==
    /\ t \in {"Start", "pollLoop"}
    /\ pc[t] = "iter"
    /\ IF entries[t] = <<>>
       THEN /\ pc' = [pc EXCEPT ![t] = IF t = "Start" THEN "launch"
                                        ELSE "select"]
            /\ UNCHANGED <<cur, entries, waited>>
       ELSE LET n == Head(entries[t]) IN
            /\ entries' = [entries EXCEPT ![t] = Tail(entries[t])]
            /\ IF isImageFile(n) /\ PathOf(n) \notin processed
               THEN /\ cur' = [cur EXCEPT ![t] = n]
                    /\ waited' = [waited EXCEPT ![t] = Debounce(t)]
                    /\ pc' = [pc EXCEPT ![t] = "enter"]
               ELSE UNCHANGED <<cur, waited, pc>>
    /\ UNCHANGED <<config, fs, env, processed, chans, readDirFails, ctxDone,
                   res, mv, hist>>

\* Launch with the two go statements placed before processExistingFiles
LaunchEarly ==
    /\ pc["Start"] \in {"readdir", "launch", "launchUnscanned"}
    /\ pc' = [t \in Threads |->
                 IF t # "Start" THEN "select"
                 ELSE IF pc["Start"] = "launchUnscanned" THEN "doneUnscanned"
                 ELSE "done"]
    /\ UNCHANGED <<config, fs, env, processed, chans, readDirFails, ctxDone,
                   locals, hist>>

\* Start: go w.watchLoop(ctx); go w.pollLoop(ctx); return nil. The final
\* position of Start keeps whether processExistingFiles listed the
\* directory ("done") or failed to ("doneUnscanned").
Launch ==
    /\ pc["Start"] \in {"launch", "launchUnscanned"}
    /\ pc' = [t \in Threads |->
                 IF t # "Start" THEN "select"
                 ELSE IF pc["Start"] = "launch" THEN "done"
                 ELSE "doneUnscanned"]
    /\ UNCHANGED <<config, fs, env, processed, chans, readDirFails, ctxDone,
                   locals, hist>>

(***************************************************************************)
(* handleFile and the handler.                                             *)
(***************************************************************************)
\* the local variables of a goroutine once it is done with a file
Reset(t) ==
    /\ cur' = [cur EXCEPT ![t] = NoName]
    /\ res' = [res EXCEPT ![t] = "none"]
    /\ waited' = [waited EXCEPT ![t] = 0]
    /\ mv' = [mv EXCEPT ![t] = NoMove]

\* handleFile up to the call of w.onNewFile. watchLoop first stats the path
\* and skips a file that no longer exists; handleFile returns nil for a path
\* of the handled set and an error for a missing file, both without calling
\* the handler.
Enter(t) ==
    /\ pc[t] = "enter"
    /\ IF PathOf(cur[t]) \in processed \/ ~fs[watchDir][cur[t]].exists
       THEN /\ pc' = [pc EXCEPT ![t] = NextPc(t)]
            /\ Reset(t)
            /\ UNCHANGED state
       ELSE /\ pc' = [pc EXCEPT ![t] = "handler"]
            /\ state' = [state EXCEPT ![cur[t]] = "Processing"]
            /\ UNCHANGED <<cur, res, waited, mv>>
    /\ UNCHANGED <<scored, config, fs, env, processed, chans, readDirFails, ctxDone,
                   entries>>

\* processFile (main.go), the onNewFile callback: ParseImage fails for a
\* path that is not a PNG by extension and for a file it cannot open; any
\* other file may be parsed and stored, or fail to decode or to be stored
processFile(n) ==
    IF ~isPNG(PathOf(n)) \/ ~fs[watchDir][n].exists
    THEN {"err"}
    ELSE {"ok", "err"}

\* the directory handleFile relocates to after the handler returned r
TargetDir(r) == IF r = "ok" THEN processedDir ELSE failedDir

\* w.onNewFile returns r; handleFile calls moveFile when the directory that
\* matches the outcome is configured
HandlerReturn(t, r) ==
    /\ pc[t] = "handler"
    /\ r \in processFile(cur[t])
    /\ res' = [res EXCEPT ![t] = r]
    /\ scored' = IF r = "ok" THEN scored \cup {cur[t]} ELSE scored
    /\ IF TargetDir(r) # NoDir
       THEN /\ mv' = [mv EXCEPT ![t] = [NoMove EXCEPT !.dest = TargetDir(r)]]
            /\ pc' = [pc EXCEPT ![t] = "mvBegin"]
       ELSE /\ pc' = [pc EXCEPT ![t] = "ret"]
            /\ UNCHANGED mv
    /\ UNCHANGED <<config, fs, env, processed, chans, readDirFails, ctxDone,
                   cur, entries, waited, state>>

\* Return with a handler error ending the goroutine
ReturnStopOnError(t) ==
    /\ pc[t] = "ret"
    /\ processed' = IF res[t] = "ok" THEN processed \cup {PathOf(cur[t])}
                    ELSE processed
    /\ state' = [state EXCEPT ![cur[t]] =
                    IF res[t] = "ok" THEN "Processed" ELSE "Failed"]
    /\ pc' = [pc EXCEPT ![t] = IF res[t] = "ok" THEN NextPc(t)
                               ELSE "returned"]
    /\ Reset(t)
    /\ UNCHANGED <<scored, config, fs, env, chans, readDirFails, ctxDone, entries>>

\* handleFile returns and its caller records the outcome: the path joins
\* the handled set only when handleFile returned nil
Return(t) ==
    /\ pc[t] = "ret"
    /\ processed' = IF res[t] = "ok" THEN processed \cup {PathOf(cur[t])}
                    ELSE processed
    /\ state' = [state EXCEPT ![cur[t]] =
                    IF res[t] = "ok" THEN "Processed" ELSE "Failed"]
    /\ pc' = [pc EXCEPT ![t] = NextPc(t)]
    /\ Reset(t)
    /\ UNCHANGED <<scored, config, fs, env, chans, readDirFails, ctxDone, entries>>

(***************************************************************************)
(* moveFile.  src is the path of cur[t] in the watch directory and         *)
(* destPath is filepath.Join(destDir, filepath.Base(src)).                 *)
(***************************************************************************)
\* the name of destPath inside destDir
DestName(t) == Base(Join(mv[t].dest, Base(PathOf(cur[t]))))

\* the source file and the destination file of the current moveFile call
Src(t) == fs[watchDir][cur[t]]

Dest(t) == fs[mv[t].dest][DestName(t)]

\* moveFile returns the error e ("nil" for success) to handleFile
MoveReturns(t, e) ==
    /\ mv' = [mv EXCEPT ![t].err = e]
    /\ pc' = [pc EXCEPT ![t] = "ret"]

\* os.MkdirAll(destDir), os.Stat(src), os.Stat(destPath) and, when the
\* destination exists, os.Remove(destPath); o names the call that fails
MoveBegin(t, o) ==
    /\ pc[t] = "mvBegin"
    /\ o \in {"ok", "mkdir", "stat", "remove"}
    /\ IF o = "mkdir"
       THEN /\ MoveReturns(t, "failed to create destination directory")
            /\ UNCHANGED fs
       ELSE IF ~Src(t).exists
       THEN /\ MoveReturns(t, "source file does not exist")
            /\ UNCHANGED fs
       ELSE IF o = "stat"
       THEN /\ MoveReturns(t, "failed to stat source file")
            /\ UNCHANGED fs
       ELSE IF Dest(t).exists /\ o = "remove"
       THEN /\ MoveReturns(t, "failed to remove existing destination file")
            /\ UNCHANGED fs
       ELSE /\ o = "ok"
            /\ fs' = [fs EXCEPT ![mv[t].dest][DestName(t)] = Absent]
            /\ mv' = [mv EXCEPT ![t].size = Len(Src(t).data),
                                ![t].orig = Src(t).data]
            /\ pc' = [pc EXCEPT ![t] = "mvRename"]
    /\ UNCHANGED <<config, env, processed, chans, readDirFails, ctxDone,
                   cur, entries, res, waited, hist>>

\* what io.Copy leaves at the destination when it fails: nothing when the
\* cleanup os.Remove(destPath) works, a truncated file when it does not
PartialCopies(d) == {Absent, File(SubSeq(d, 1, Len(d) - 1))}

\* os.Rename(src, destPath) and, when it fails (the source is gone, or the
\* destination is on another file system), os.Open(src),
\* os.Create(destPath) and io.Copy(destFile, srcFile); o is "renamed",
\* "copied" or the call of the fallback that fails
MoveRename(t, o) ==
    /\ pc[t] = "mvRename"
    /\ o \in {"renamed", "copied", "open", "create", "copy"}
    /\ IF o = "renamed"
       THEN /\ Src(t).exists
            /\ fs' = [fs EXCEPT ![watchDir][cur[t]] = Absent,
                                ![mv[t].dest][DestName(t)] = Src(t)]
            /\ events' \in Emit(events, cur[t], "RENAME")
            /\ mv' = [mv EXCEPT ![t].via = "rename"]
            /\ pc' = [pc EXCEPT ![t] = "mvRenamed"]
       ELSE /\ UNCHANGED events
            /\ IF ~Src(t).exists \/ o = "open"
               THEN /\ MoveReturns(t, "failed to open source file")
                    /\ UNCHANGED fs
               ELSE IF o = "create"
               THEN /\ MoveReturns(t, "failed to create destination file")
                    /\ UNCHANGED fs
               ELSE IF o = "copy"
               THEN /\ \E f \in PartialCopies(Src(t).data) :
                          fs' = [fs EXCEPT ![mv[t].dest][DestName(t)] = f]
                    /\ MoveReturns(t, "failed to copy file")
               ELSE /\ fs' = [fs EXCEPT ![mv[t].dest][DestName(t)] = Src(t)]
                    /\ mv' = [mv EXCEPT ![t].via = "copy"]
                    /\ pc' = [pc EXCEPT ![t] = "mvCopied"]
    /\ UNCHANGED <<config, env, processed, subscribed, closed,
                   readDirFails, ctxDone, cur, entries, res, waited, hist>>

\* after a successful rename and a 100 ms sleep: a source that still exists
\* is removed (a failure of that removal is only logged), and the
\* destination must exist
MoveVerifyRename(t, rm) ==
    /\ pc[t] = "mvRenamed"
    /\ IF Src(t).exists /\ rm
       THEN /\ fs' = [fs EXCEPT ![watchDir][cur[t]] = Absent]
            /\ events' \in Emit(events, cur[t], "REMOVE")
       ELSE /\ Src(t).exists \/ rm
            /\ UNCHANGED <<fs, events>>
    /\ IF Dest(t).exists
       THEN MoveReturns(t, "nil")
       ELSE MoveReturns(t, "destination file does not exist after rename")
    /\ UNCHANGED <<config, env, processed, subscribed, closed,
                   readDirFails, ctxDone, cur, entries, res, waited, hist>>

\* os.Stat(destPath) after the copy and the comparison of its size with the
\* size the source had when moveFile was entered; a destination of another
\* size is removed (the result of that os.Remove is ignored)
MoveVerifyCopy(t, ok) ==
    /\ pc[t] = "mvCopied"
    /\ IF ~Dest(t).exists
       THEN /\ ok
            /\ MoveReturns(t, "destination file does not exist after copy")
            /\ UNCHANGED fs
       ELSE IF ~ok
       THEN /\ MoveReturns(t, "failed to stat destination file")
            /\ UNCHANGED fs
       ELSE IF Len(Dest(t).data) # mv[t].size
       THEN /\ fs' \in {fs, [fs EXCEPT ![mv[t].dest][DestName(t)] = Absent]}
            /\ MoveReturns(t, "file size mismatch")
       ELSE /\ pc' = [pc EXCEPT ![t] = "mvRemove"]
            /\ UNCHANGED <<fs, mv>>
    /\ UNCHANGED <<config, env, processed, chans, readDirFails, ctxDone,
                   cur, entries, res, waited, hist>>

\* the error moveFile returns when the copy is verified and os.Remove(src)
\* fails
RemoveSourceError == "file copied successfully but failed to remove source"

\* os.Remove(src) after a verified copy
MoveRemoveSource(t, ok) ==
    /\ pc[t] = "mvRemove"
    /\ IF ok
       THEN /\ Src(t).exists
            /\ fs' = [fs EXCEPT ![watchDir][cur[t]] = Absent]
            /\ events' \in Emit(events, cur[t], "REMOVE")
            /\ MoveReturns(t, "nil")
       ELSE /\ MoveReturns(t, RemoveSourceError)
            /\ UNCHANGED <<fs, events>>
    /\ UNCHANGED <<config, env, processed, subscribed, closed,
                   readDirFails, ctxDone, cur, entries, res, waited, hist>>

(***************************************************************************)
(* watchLoop and pollLoop.                                                 *)
(***************************************************************************)
\* LoopCancelled with pollLoop never taking the ctx.Done() case
LoopCancelledWatchOnly(t) ==
    /\ t = "watchLoop"
    /\ pc[t] = "select"
    /\ ctxDone
    /\ pc' = [pc EXCEPT ![t] = "returned"]
    /\ UNCHANGED <<config, fs, env, processed, chans, readDirFails, ctxDone,
                   locals, hist>>

\* select case <-ctx.Done(): return
LoopCancelled(t) ==
    /\ t \in Loops
    /\ pc[t] = "select"
    /\ ctxDone
    /\ pc' = [pc EXCEPT ![t] = "returned"]
    /\ UNCHANGED <<config, fs, env, processed, chans, readDirFails, ctxDone,
                   locals, hist>>

\* select case event, ok := <-w.watcher.Events (or Errors) with ok false
WatchClosed ==
    /\ pc["watchLoop"] = "select"
    /\ closed
    /\ pc' = [pc EXCEPT !["watchLoop"] = "returned"]
    /\ UNCHANGED <<config, fs, env, processed, chans, readDirFails, ctxDone,
                   locals, hist>>

\* select case event := <-w.watcher.Events: after a Create or Write event
\* for a path with an image extension that is not in the handled set the
\* loop sleeps for Debounce and is then about to stat and handle the file;
\* every other event is dropped
WatchEvent ==
    /\ pc["watchLoop"] = "select"
    /\ ~closed
    /\ events # <<>>
    /\ events' = Tail(events)
    /\ LET e == Head(events) IN
       IF /\ e.op \in {"CREATE", "WRITE"}
          /\ isImageFile(PathOf(e.name))
          /\ PathOf(e.name) \notin processed
       THEN /\ cur' = [cur EXCEPT !["watchLoop"] = e.name]
            /\ waited' = [waited EXCEPT !["watchLoop"] =
                             Debounce("watchLoop")]
            /\ pc' = [pc EXCEPT !["watchLoop"] = "enter"]
       ELSE UNCHANGED <<cur, waited, pc>>
    /\ UNCHANGED <<config, fs, env, processed, subscribed, closed,
                   readDirFails, ctxDone, entries, res, mv, hist>>

\* select case err := <-w.watcher.Errors: the backend hands an error over
\* the unbuffered channel and watchLoop logs it
WatchError ==
    /\ pc["watchLoop"] = "select"
    /\ subscribed /\ ~closed
    /\ UNCHANGED vars

\* select case <-ticker.C: os.ReadDir(w.watchDir); a failed listing is
\* logged and the loop waits for the next tick
PollTick(ok) ==
    /\ pc["pollLoop"] = "select"
    /\ IF ok
       THEN /\ entries' = [entries EXCEPT !["pollLoop"] =
                              ReadDir(fs[watchDir])]
            /\ pc' = [pc EXCEPT !["pollLoop"] = "iter"]
            /\ readDirFails' = 0
       ELSE /\ readDirFails < MaxReadDirFail
            /\ readDirFails' = readDirFails + 1
            /\ UNCHANGED <<entries, pc>>
    /\ UNCHANGED <<config, fs, env, processed, chans, ctxDone, cur, res,
                   waited, mv, hist>>

(***************************************************************************)
(* The specification.                                                      *)
(***************************************************************************)
\* the producer writing every screenshot in one step
Producer == \E n \in Names : CreateFile(n, FullLen)

\* the producer writing a screenshot byte by byte
SlowProducer ==
    \/ \E n \in Names, k \in 1..FullLen : CreateFile(n, k)
    \/ \E n \in Names : AppendFile(n)

Shutdown == Cancel \/ Close

processExistingFiles ==
    \/ \E ok \in BOOLEAN : ScanReadDir(ok)
    \/ IterEntry("Start")

handleFile(t) ==
    \/ Enter(t)
    \/ \E r \in {"ok", "err"} : HandlerReturn(t, r)
    \/ Return(t)

moveFile(t) ==
    \/ \E o \in {"ok", "mkdir", "stat", "remove"} : MoveBegin(t, o)
    \/ \E o \in {"renamed", "copied", "open", "create", "copy"} :
          MoveRename(t, o)
    \/ \E rm \in BOOLEAN : MoveVerifyRename(t, rm)
    \/ \E ok \in BOOLEAN : MoveVerifyCopy(t, ok)
    \/ \E ok \in BOOLEAN : MoveRemoveSource(t, ok)

\* Start up to the end of processExistingFiles
Scan ==
    \/ \E o \in {"ok", "mkdir", "add"} : StartSetup(o)
    \/ processExistingFiles
    \/ handleFile("Start")
    \/ moveFile("Start")

StartThread == Scan \/ Launch

watchLoop ==
    \/ LoopCancelled("watchLoop")
    \/ WatchClosed
    \/ WatchEvent
    \/ WatchError
    \/ handleFile("watchLoop")
    \/ moveFile("watchLoop")

pollLoop ==
    \/ LoopCancelled("pollLoop")
    \/ \E ok \in BOOLEAN : PollTick(ok)
    \/ IterEntry("pollLoop")
    \/ handleFile("pollLoop")
    \/ moveFile("pollLoop")

Next ==
    \/ Producer
    \/ Shutdown
    \/ StartThread
    \/ watchLoop
    \/ pollLoop

Spec == Init /\ [][Next]_vars

(***************************************************************************)
(* The startup scan on its own: one goroutine calls handleFile and         *)
(* moveFile for the files it finds, which may still be growing, with older *)
(* files of the same names left in the destination directories.            *)
(***************************************************************************)
StaleDirs(names) ==
    {[n \in Names |-> IF n \in S THEN Stale ELSE Absent] : S \in SUBSET names}

SeqInit ==
    /\ Detached
    /\ processedDir \in {NoDir, ProcessedPath}
    /\ failedDir \in {NoDir, FailedPath}
    /\ \E d \in WatchDirs(Contents) :
          /\ born = {n \in Names : d[n].exists}
          /\ existing = {n \in Names : d[n].exists}
          /\ \E p \in StaleDirs(existing), f \in StaleDirs(existing) :
                fs = [dir \in DirSet |->
                         IF dir = watchDir THEN d
                         ELSE IF dir = ProcessedPath THEN p ELSE f]
    /\ processed = {}
    /\ subscribed = FALSE
    /\ events = <<>>
    /\ readDirFails = 0
    /\ ctxDone = FALSE
    /\ closed = FALSE
    /\ pc = [t \in Threads |-> IF t = "Start" THEN "start" ELSE "idle"]
    /\ cur = [t \in Threads |-> NoName]
    /\ entries = [t \in Threads |-> <<>>]
    /\ res = [t \in Threads |-> "none"]
    /\ waited = [t \in Threads |-> 0]
    /\ mv = [t \in Threads |-> NoMove]
    /\ state = [n \in Names |-> "None"]
    /\ scored = {}

SeqNext == SlowProducer \/ Scan

SeqSpec == SeqInit /\ [][SeqNext]_vars

(***************************************************************************)
(* The poll fallback: no notification is ever consumed, watchLoop stays    *)
(* blocked in its select.                                                  *)
(***************************************************************************)
LiveNext == Producer \/ Cancel \/ StartThread \/ pollLoop

\* The poll goroutine is scheduled fairly: its ticker keeps firing, and the
\* handler and the file operations it calls return. A failed listing is
\* transient (at most MaxReadDirFail in a row).
LiveSpec == Init /\ [][LiveNext]_vars /\ WF_vars(pollLoop)

(***************************************************************************)
(* Shutdown: both destination directories configured and an empty watch   *)
(* directory at Start.  Both loops are scheduled fairly, and a select that *)
(* is entered again and again with ctx.Done() ready eventually takes that  *)
(* case (Go chooses among the ready cases at random).                      *)
(***************************************************************************)
StopInit ==
    /\ Init
    /\ processedDir = ProcessedPath
    /\ failedDir = FailedPath
    /\ existing = {}

StopNext == Producer \/ Shutdown \/ StartThread \/ watchLoop \/ pollLoop

StopSpec ==
    /\ StopInit
    /\ [][StopNext]_vars
    /\ WF_vars(watchLoop)
    /\ WF_vars(pollLoop)
    /\ \A t \in Loops : SF_vars(LoopCancelled(t))

(***************************************************************************)
(* The process: main returns, and the process exits, as soon as its select *)
(* sees ctx.Done(); nothing waits for the goroutines Start launched.       *)
(***************************************************************************)
\* main has not returned yet
Alive == pc["Start"] # "exited"

\* main.go: case <-ctx.Done() in the final select, then return; the
\* deferred fileWatcher.Close() runs and every goroutine stops where it is
Exit ==
    /\ pc["Start"] \in {"done", "doneUnscanned"}
    /\ ctxDone
    /\ pc' = [pc EXCEPT !["Start"] = "exited"]
    /\ closed' = TRUE
    /\ events' = <<>>
    /\ UNCHANGED <<config, fs, env, processed, subscribed, readDirFails,
                   ctxDone, locals, hist>>

ExitNext == (Alive /\ StopNext) \/ Exit

ExitSpec == StopInit /\ [][ExitNext]_vars

(***************************************************************************)
(* Repo.CreateScore (server.go).  db holds the committed rows; the         *)
(* statements of a call run on tx.work, the transaction's view, which      *)
(* Commit publishes and the deferred Rollback discards.  A pointer to a   *)
(* string is a sequence of at most one string.                             *)
(***************************************************************************)
\* CreateScore calls in one behaviour
MaxCalls == 2

\* players of one CreateScoreData
MaxPlayers == 2

EmptyDb == [artists |-> {}, songs |-> {}, scores |-> <<>>, players |-> <<>>]

NoTx == [pc |-> "idle", calls |-> 0, ret |-> "none", data |-> <<>>,
         work |-> EmptyDb, before |-> EmptyDb, i |-> 0]

\* the CreateScoreData values tried
ScoreData ==
    [artist : {"", "A"}, song : {"S"},
     charter : {<<>>, <<"">>, <<"C">>, <<"D">>},
     players : {[i \in 1..k |-> IF i % 2 = 1 THEN "P" ELSE "Q"] :
                   k \in 0..MaxPlayers}]

\* data.Charter != nil && *data.Charter != ""
HasCharter(data) == data.charter # <<>> /\ data.charter[1] # ""

\* the variables of the watcher
watcher == <<processedDir, failedDir, fs, born, existing, processed,
             subscribed, events, readDirFails, ctxDone, closed, pc, cur,
             entries, res, waited, mv, state, scored>>

\* the watcher as NewWatcher leaves it, nothing configured, Start not called
AtRest ==
    /\ processedDir = NoDir
    /\ failedDir = NoDir
    /\ fs = [dir \in DirSet |-> EmptyDir]
    /\ born = {}
    /\ existing = {}
    /\ processed = {}
    /\ subscribed = FALSE
    /\ events = <<>>
    /\ readDirFails = 0
    /\ ctxDone = FALSE
    /\ closed = FALSE
    /\ pc = [t \in Threads |-> IF t = "Start" THEN "start" ELSE "idle"]
    /\ cur = [t \in Threads |-> NoName]
    /\ entries = [t \in Threads |-> <<>>]
    /\ res = [t \in Threads |-> "none"]
    /\ waited = [t \in Threads |-> 0]
    /\ mv = [t \in Threads |-> NoMove]
    /\ state = [n \in Names |-> "None"]
    /\ scored = {}

DbInit ==
    /\ AtRest
    /\ db = EmptyDb
    /\ tx = NoTx
    /\ arg = <<>>
    /\ out = <<>>

\* what a step of CreateScore leaves alone
DbFrame == UNCHANGED <<watcher, arg, out>>

\* the deferred tx.Rollback after a failed statement: the call returns the
\* error and the transaction's writes are dropped
TxFails ==
    /\ tx' = [tx EXCEPT !.pc = "idle", !.ret = "err", !.work = EmptyDb]
    /\ UNCHANGED db
    /\ DbFrame

\* a statement of the transaction succeeded: its view becomes w
TxGoes(next, w) ==
    /\ tx' = [tx EXCEPT !.pc = next, !.work = w]
    /\ UNCHANGED db
    /\ DbFrame

\* r.pool.Begin(ctx)
Begin(data, ok) ==
    /\ tx.pc = "idle"
    /\ tx.calls < MaxCalls
    /\ tx' = [pc |-> IF ok THEN "artist" ELSE "idle",
              calls |-> tx.calls + 1,
              ret |-> IF ok THEN "none" ELSE "err",
              data |-> data, work |-> IF ok THEN db ELSE EmptyDb,
              before |-> db, i |-> 0]
    /\ UNCHANGED db
    /\ DbFrame

\* INSERT INTO artists ... ON CONFLICT (name) DO UPDATE ... RETURNING id
UpsertArtist(ok) ==
    /\ tx.pc = "artist"
    /\ IF ok
       THEN TxGoes("song", [tx.work EXCEPT !.artists = @ \cup {tx.data.artist}])
       ELSE TxFails

\* INSERT INTO songs ... ON CONFLICT (name, artist_id) DO UPDATE ...
UpsertSong(ok) ==
    /\ tx.pc = "song"
    /\ IF ok
       THEN LET d == tx.data
                present == \E r \in tx.work.songs :
                               r.name = d.song /\ r.artist = d.artist
                row == [name |-> d.song, artist |-> d.artist,
                        charters |-> IF HasCharter(d) THEN d.charter
                                     ELSE <<>>]
            IN TxGoes(IF HasCharter(d) THEN "charter" ELSE "score",
                      IF present THEN tx.work
                      ELSE [tx.work EXCEPT !.songs = @ \cup {row}])
       ELSE TxFails

\* the UPDATE without the condition NOT ($1 = ANY(charters))
AppendCharterAlways(ok) ==
    /\ tx.pc = "charter"
    /\ IF ok
       THEN LET d == tx.data
                upd(r) == IF r.name = d.song /\ r.artist = d.artist
                          THEN [r EXCEPT !.charters = Append(@, d.charter[1])]
                          ELSE r
            IN TxGoes("score",
                      [tx.work EXCEPT !.songs = {upd(r) : r \in @}])
       ELSE TxFails

\* UPDATE songs SET charters = array_append(charters, $1)
\* WHERE id = $2 AND NOT ($1 = ANY(charters))
AppendCharter(ok) ==
    /\ tx.pc = "charter"
    /\ IF ok
       THEN LET d == tx.data
                upd(r) == IF /\ r.name = d.song /\ r.artist = d.artist
                             /\ \A k \in DOMAIN r.charters :
                                   r.charters[k] # d.charter[1]
                          THEN [r EXCEPT !.charters = Append(@, d.charter[1])]
                          ELSE r
            IN TxGoes("score",
                      [tx.work EXCEPT !.songs = {upd(r) : r \in @}])
       ELSE TxFails

\* INSERT INTO scores ... RETURNING id
InsertScore(ok) ==
    /\ tx.pc = "score"
    /\ IF ok
       THEN LET d == tx.data
                row == [song |-> d.song, artist |-> d.artist,
                        charter |-> d.charter]
            IN TxGoes(IF d.players = <<>> THEN "commit" ELSE "players",
                      [tx.work EXCEPT !.scores = Append(@, row)])
       ELSE TxFails

\* InsertPlayer with the statement sent on r.pool, outside the transaction
InsertPlayerOnPool(ok) ==
    /\ tx.pc = "players"
    /\ IF ok
       THEN LET row == [score |-> Len(tx.work.scores),
                        name |-> tx.data.players[tx.i + 1]]
            IN /\ tx' = [tx EXCEPT
                            !.i = @ + 1,
                            !.pc = IF tx.i + 1 = Len(tx.data.players)
                                   THEN "commit" ELSE "players",
                            !.work.players = Append(@, row)]
               /\ db' = [db EXCEPT !.players = Append(@, row)]
               /\ DbFrame
       ELSE TxFails

\* one iteration of "for _, p := range data.Players": INSERT INTO players
InsertPlayer(ok) ==
    /\ tx.pc = "players"
    /\ IF ok
       THEN LET row == [score |-> Len(tx.work.scores),
                        name |-> tx.data.players[tx.i + 1]]
            IN /\ tx' = [tx EXCEPT
                            !.i = @ + 1,
                            !.pc = IF tx.i + 1 = Len(tx.data.players)
                                   THEN "commit" ELSE "players",
                            !.work.players = Append(@, row)]
               /\ UNCHANGED db
               /\ DbFrame
       ELSE TxFails

\* tx.Commit(ctx); return scoreID, nil
Commit(ok) ==
    /\ tx.pc = "commit"
    /\ IF ok
       THEN /\ db' = tx.work
            /\ tx' = [tx EXCEPT !.pc = "idle", !.ret = "ok"]
            /\ DbFrame
       ELSE TxFails

CreateScore ==
    \/ \E data \in ScoreData, ok \in BOOLEAN : Begin(data, ok)
    \/ \E ok \in BOOLEAN : UpsertArtist(ok)
    \/ \E ok \in BOOLEAN : UpsertSong(ok)
    \/ \E ok \in BOOLEAN : AppendCharter(ok)
    \/ \E ok \in BOOLEAN : InsertScore(ok)
    \/ \E ok \in BOOLEAN : InsertPlayer(ok)
    \/ \E ok \in BOOLEAN : Commit(ok)

DbSpec == DbInit /\ [][CreateScore]_vars

(***************************************************************************)
(* The parser (parser.go): functions studied on their own.  arg is the     *)
(* input drawn at the start, out what the function returned for it.        *)
(***************************************************************************)
NoOut == [done |-> FALSE]

\* the state before a parser function is applied to the input a
Drawn(a) ==
    /\ AtRest
    /\ db = EmptyDb
    /\ tx = NoTx
    /\ arg = a
    /\ out = NoOut

\* the function fn returns v
Returns(fn, v) ==
    /\ ~out.done
    /\ out' = [done |-> TRUE, fn |-> fn, val |-> v]
    /\ UNCHANGED <<watcher, db, tx, arg>>

DigitChars == <<"0","1","2","3","4","5","6","7","8","9">>

IsDigit(c) == c \in Range(DigitChars)

DigitVal(c) == (CHOOSE i \in DOMAIN DigitChars : DigitChars[i] = c) - 1

\* the decimal number written by the digit sequence s
RECURSIVE Num(_)
Num(s) ==
    IF s = <<>> THEN 0
    ELSE 10 * Num(SubSeq(s, 1, Len(s) - 1)) + DigitVal(s[Len(s)])

\* strings.TrimSuffix(filename, filepath.Ext(filename))
TrimExt(filename) == SubSeq(filename, 1, Len(filename) - Len(Ext(filename)))

\* the width of the regular expression (\d{14})
StampLen == 14

\* re.FindStringSubmatch: the leftmost StampLen consecutive digits of s,
\* <<>> when there are none
RECURSIVE FindStamp(_)
FindStamp(s) ==
    IF Len(s) < StampLen THEN <<>>
    ELSE IF \A k \in 1..StampLen : IsDigit(s[k]) THEN SubSeq(s, 1, StampLen)
    ELSE FindStamp(Tail(s))

IsLeap(y) == y % 4 = 0 /\ (y % 100 # 0 \/ y % 400 = 0)

\* time: daysIn(month, year)
DaysIn(m, y) ==
    IF m = 2 THEN (IF IsLeap(y) THEN 29 ELSE 28)
    ELSE IF m \in {4, 6, 9, 11} THEN 30 ELSE 31

\* time.Parse with the day of the month checked against 31 only
ParseStampAnyMonthLength(ts) ==
    LET t == [year |-> Num(SubSeq(ts, 1, 4)), month |-> Num(SubSeq(ts, 5, 6)),
              day |-> Num(SubSeq(ts, 7, 8)), hour |-> Num(SubSeq(ts, 9, 10)),
              min |-> Num(SubSeq(ts, 11, 12)), sec |-> Num(SubSeq(ts, 13, 14))]
    IN IF /\ t.month \in 1..12
          /\ t.day \in 1..31
          /\ t.hour \in 0..23
          /\ t.min \in 0..59
          /\ t.sec \in 0..59
       THEN [ok |-> TRUE, time |-> t]
       ELSE [ok |-> FALSE]

\* time.Parse("20060102150405", ts) for StampLen digits: the fields, and
\* the range checks of month, day, hour, minute and second
ParseStamp(ts) ==
    LET t == [year |-> Num(SubSeq(ts, 1, 4)), month |-> Num(SubSeq(ts, 5, 6)),
              day |-> Num(SubSeq(ts, 7, 8)), hour |-> Num(SubSeq(ts, 9, 10)),
              min |-> Num(SubSeq(ts, 11, 12)), sec |-> Num(SubSeq(ts, 13, 14))]
    IN IF /\ t.month \in 1..12
          /\ t.day \in 1..DaysIn(t.month, t.year)
          /\ t.hour \in 0..23
          /\ t.min \in 0..59
          /\ t.sec \in 0..59
       THEN [ok |-> TRUE, time |-> t]
       ELSE [ok |-> FALSE]

\* parseTimestampFromFilename
parseTimestampFromFilename(filename) ==
    LET ts == FindStamp(TrimExt(filename))
    IN IF ts = <<>> THEN [ok |-> FALSE] ELSE ParseStamp(ts)

\* ParseImage up to loadImage: the createdAt of the record, or the error of
\* os.Stat when the name has no timestamp and the file cannot be examined
ResolveCreatedAt(a) ==
    LET r == parseTimestampFromFilename(Base(a.path))
    IN IF r.ok THEN [ok |-> TRUE, createdAt |-> r.time]
       ELSE IF a.stat THEN [ok |-> TRUE, createdAt |-> a.modTime]
       ELSE [ok |-> FALSE]

\* digit blocks: two valid date-times (one on a leap day), blocks that are
\* no date-time (30 February, 29 February of a common year, month 00,
\* hour 24, second 60), a block that is too short, and none
StampBlocks ==
    { <<"2","0","2","5","1","2","1","2","0","5","2","2","3","1">>,
      <<"2","0","2","4","0","2","2","9","2","3","5","9","5","9">>,
      <<"2","0","2","5","0","2","3","0","1","2","0","0","0","0">>,
      <<"2","0","2","3","0","2","2","9","0","1","0","2","0","3">>,
      <<"0","0","0","0","0","0","0","0","0","0","0","0","0","0">>,
      <<"2","0","2","5","1","2","1","2","2","4","0","0","0","0">>,
      <<"2","0","2","5","1","2","1","2","0","5","2","2","6","0">>,
      <<"2","0","2","5","1","2","1","2">>,
      <<>> }

\* file names made of a prefix, two digit blocks around a separator, and an
\* extension
StampNames ==
    {pre \o a \o sep \o b \o ext :
        pre \in {<<>>, <<"c","l","o","n","e","h","e","r","o","-","A","r","t","i","s","t","-">>, <<"7">>},
        a \in StampBlocks, sep \in {<<"-">>, <<>>}, b \in StampBlocks,
        ext \in {<<>>, <<".","p","n","g">>}}

\* the modification time os.Stat reports
ModTime == [year |-> 2026, month |-> 1, day |-> 2, hour |-> 3, min |-> 4,
            sec |-> 5]

StampInit ==
    \E n \in StampNames, st \in BOOLEAN :
        Drawn([path |-> Join(watchDir, n), stat |-> st, modTime |-> ModTime])

Stamp ==
    Returns("parseTimestampFromFilename",
            parseTimestampFromFilename(Base(arg.path)))

CreatedAt == Returns("createdAt", ResolveCreatedAt(arg))

StampSpec == StampInit /\ [][Stamp \/ CreatedAt]_vars

(***************************************************************************)
(* cropImage.  An image is known by its bounds; a rectangle is a record    *)
(* of its corners Min and Max.                                             *)
(***************************************************************************)
MaxDim == 2

MaxOver == 2

\* image.Rect: the corners are put in order
Rect(x0, y0, x1, y1) ==
    [Min |-> [X |-> IF x0 > x1 THEN x1 ELSE x0, Y |-> IF y0 > y1 THEN y1 ELSE y0],
     Max |-> [X |-> IF x0 > x1 THEN x0 ELSE x1, Y |-> IF y0 > y1 THEN y0 ELSE y1]]

\* Rectangle.Dx and Rectangle.Dy
Dx(r) == r.Max.X - r.Min.X

Dy(r) == r.Max.Y - r.Min.Y

\* cropImage: the bounds of the image it returns, and the point of img that
\* draw.Draw aligns with the Min corner of those bounds
cropImage(img, left, top, right, bottom) ==
    LET l == IF left < img.Min.X THEN img.Min.X ELSE left
        t == IF top < img.Min.Y THEN img.Min.Y ELSE top
        r == IF right > img.Max.X THEN img.Max.X ELSE right
        b == IF bottom > img.Max.Y THEN img.Max.Y ELSE bottom
    IN [bounds |-> Rect(0, 0, r - l, b - t), sp |-> [X |-> l, Y |-> t]]

\* images of W x H pixels, as the decoder and the resizer produce them
Images == {Rect(0, 0, w, h) : w \in 1..MaxDim, h \in 1..MaxDim}

\* coordinates inside the largest image and up to MaxOver outside it
Coords == (0 - MaxOver)..(MaxDim + MaxOver)

CropInit ==
    \E img \in Images, left \in Coords, top \in Coords, right \in Coords,
       bottom \in Coords :
        Drawn([img |-> img, left |-> left, top |-> top, right |-> right,
               bottom |-> bottom])

Crop ==
    Returns("cropImage",
            cropImage(arg.img, arg.left, arg.top, arg.right, arg.bottom))

CropSpec == CropInit /\ [][Crop]_vars

(***************************************************************************)
(* Text helpers of the parser.  A string is the sequence of its            *)
(* characters; an integer read from text is kept as its decimal digits     *)
(* without leading zeros, so that its 64 bits are not cut.                 *)
(***************************************************************************)
\* the white space that strings.TrimSpace removes and \s matches
Spaces == {" ", "\t", "\n", "\r", "\f"}

RECURSIVE TrimLeft(_)
TrimLeft(s) ==
    IF s # <<>> /\ s[1] \in Spaces THEN TrimLeft(Tail(s)) ELSE s

RECURSIVE TrimRight(_)
TrimRight(s) ==
    IF s # <<>> /\ s[Len(s)] \in Spaces
    THEN TrimRight(SubSeq(s, 1, Len(s) - 1))
    ELSE s

\* strings.TrimSpace
TrimSpace(s) == TrimRight(TrimLeft(s))

\* strings.HasPrefix
HasPrefix(s, prefix) ==
    Len(prefix) <= Len(s) /\ SubSeq(s, 1, Len(prefix)) = prefix

\* strings.TrimPrefix
TrimPrefix(s, prefix) ==
    IF HasPrefix(s, prefix) THEN SubSeq(s, Len(prefix) + 1, Len(s)) ELSE s

\* strings.Contains
Contains(s, substr) ==
    \E i \in 1..(Len(s) - Len(substr) + 1) :
        SubSeq(s, i, i + Len(substr) - 1) = substr

\* strings.Split(s, "\n")
RECURSIVE Split(_)
Split(s) ==
    IF \A i \in DOMAIN s : s[i] # "\n" THEN <<s>>
    ELSE LET i == CHOOSE k \in DOMAIN s :
                      s[k] = "\n" /\ \A j \in 1..(k - 1) : s[j] # "\n"
         IN <<SubSeq(s, 1, i - 1)>> \o Split(SubSeq(s, i + 1, Len(s)))

\* filterEmpty
filterEmpty(lines) == SelectSeq(lines, LAMBDA l : TrimSpace(l) # <<>>)

\* the lines that the three extractors work on
Lines(text) == filterEmpty(Split(TrimSpace(text)))

\* regexp [^\d] replaced by "": the digits of s
Cleaned(s) == SelectSeq(s, IsDigit)

\* the longest run of digits that begins s
RECURSIVE DigitPrefix(_)
DigitPrefix(s) ==
    IF s # <<>> /\ IsDigit(s[1]) THEN <<s[1]>> \o DigitPrefix(Tail(s))
    ELSE <<>>

\* regexp (\d+), FindStringSubmatch: the leftmost run of digits of s, <<>>
\* when s has no digit
RECURSIVE FirstNumber(_)
FirstNumber(s) ==
    IF s = <<>> THEN <<>>
    ELSE IF IsDigit(s[1]) THEN DigitPrefix(s)
    ELSE FirstNumber(Tail(s))

\* digits without their leading zeros
RECURSIVE Canonical(_)
Canonical(d) ==
    IF Len(d) > 1 /\ d[1] = "0" THEN Canonical(Tail(d)) ELSE d

\* a < b for digit sequences of the same length
RECURSIVE DigitsLess(_, _)
DigitsLess(a, b) ==
    /\ a # <<>>
    /\ \/ DigitVal(a[1]) < DigitVal(b[1])
       \/ a[1] = b[1] /\ DigitsLess(Tail(a), Tail(b))

\* math.MaxInt64
MaxInt64 == <<"9","2","2","3","3","7","2","0","3","6","8","5","4","7","7",
              "5","8","0","7">>

\* strconv.ParseInt(d, 10, 64) and strconv.Atoi(d) for a sequence d of
\* digits: an error when d is empty or denotes more than MaxInt64
ParseInt(d) ==
    LET c == Canonical(d)
    IN IF d = <<>> THEN [ok |-> FALSE]
       ELSE IF Len(c) > Len(MaxInt64) THEN [ok |-> FALSE]
       ELSE IF Len(c) = Len(MaxInt64) /\ DigitsLess(MaxInt64, c)
            THEN [ok |-> FALSE]
       ELSE [ok |-> TRUE, val |-> c]

\* isNumeric with at least one separator required
isNumericGrouped(s) ==
    LET t == TrimSpace(s)
    IN /\ t # <<>>
       /\ IsDigit(t[1])
       /\ IsDigit(t[Len(t)])
       /\ \E i \in DOMAIN t : ~IsDigit(t[i])
       /\ \A i \in DOMAIN t :
             \/ IsDigit(t[i])
             \/ /\ t[i] \in Spaces \cup {","}
                /\ i > 1 /\ i < Len(t)
                /\ IsDigit(t[i - 1]) /\ IsDigit(t[i + 1])

\* isNumeric: regexp ^\d+([,\s]\d+)*$ on the trimmed text: groups of digits
\* with one comma or one white space between neighbours
isNumeric(s) ==
    LET t == TrimSpace(s)
    IN /\ t # <<>>
       /\ IsDigit(t[1])
       /\ IsDigit(t[Len(t)])
       /\ \A i \in DOMAIN t :
             \/ IsDigit(t[i])
             \/ /\ t[i] \in Spaces \cup {","}
                /\ i > 1 /\ i < Len(t)
                /\ IsDigit(t[i - 1]) /\ IsDigit(t[i + 1])

\* normalizeDifficulty with the words tried in the opposite order
normalizeDifficultyEasyFirst(s) ==
    LET lower == ToLower(s)
    IN IF Contains(lower, <<"e","a","s","y">>)
       THEN <<"E","a","s","y">>
       ELSE IF Contains(lower, <<"m","e","d","i","u","m">>)
       THEN <<"M","e","d","i","u","m">>
       ELSE IF Contains(lower, <<"h","a","r","d">>)
       THEN <<"H","a","r","d">>
       ELSE IF Contains(lower, <<"e","x","p","e","r","t">>)
       THEN <<"E","x","p","e","r","t">>
       ELSE s

\* normalizeDifficulty
normalizeDifficulty(s) ==
    LET lower == ToLower(s)
    IN IF Contains(lower, <<"e","x","p","e","r","t">>)
       THEN <<"E","x","p","e","r","t">>
       ELSE IF Contains(lower, <<"h","a","r","d">>)
       THEN <<"H","a","r","d">>
       ELSE IF Contains(lower, <<"m","e","d","i","u","m">>)
       THEN <<"M","e","d","i","u","m">>
       ELSE IF Contains(lower, <<"e","a","s","y">>)
       THEN <<"E","a","s","y">>
       ELSE s

\* isPlayerSeparator with one leading dash taken as enough
isPlayerSeparatorOneDash(s) ==
    TrimSpace(s) = <<>> \/ HasPrefix(TrimSpace(s), <<"-">>)

\* isPlayerSeparator
isPlayerSeparator(s) ==
    TrimSpace(s) = <<>> \/ HasPrefix(TrimSpace(s), <<"-","-","-">>)

(***************************************************************************)
(* The three extractors, as functions of the text that extractText         *)
(* recognised in their region.  A pointer field is a sequence of at most   *)
(* one value.                                                              *)
(***************************************************************************)
\* extractTopLeftInfo with the label of the charter line kept
extractTopLeftInfoKeepLabel(text) ==
    LET lines == Lines(text)
    IN [artist |-> IF Len(lines) > 0 THEN TrimSpace(lines[1]) ELSE <<>>,
        songName |-> IF Len(lines) > 1 THEN TrimSpace(lines[2]) ELSE <<>>,
        charter |-> IF Len(lines) > 2 THEN <<TrimSpace(lines[3])>> ELSE <<>>]

\* extractTopLeftInfo
extractTopLeftInfo(text) ==
    LET lines == Lines(text)
        c0 == TrimSpace(lines[3])
        c == IF HasPrefix(ToLower(c0), <<"c","h","a","r","t","e","r">>)
             THEN TrimSpace(TrimPrefix(TrimPrefix(c0, <<"C","h","a","r","t","e","r",":">>),
                                       <<"c","h","a","r","t","e","r",":">>))
             ELSE c0
    IN [artist |-> IF Len(lines) > 0 THEN TrimSpace(lines[1]) ELSE <<>>,
        songName |-> IF Len(lines) > 1 THEN TrimSpace(lines[2]) ELSE <<>>,
        charter |-> IF Len(lines) > 2 /\ c # <<>> THEN <<c>> ELSE <<>>]

\* extractCenterInfo, first loop: the digits of the first line that has
\* digits which ParseInt accepts
RECURSIVE TotalScoreOf(_)
TotalScoreOf(lines) ==
    IF lines = <<>> THEN <<>>
    ELSE LET v == ParseInt(Cleaned(Head(lines)))
         IN IF v.ok THEN <<v.val>> ELSE TotalScoreOf(Tail(lines))

\* extractCenterInfo, second loop: the first number of the first line that
\* names a star and has one, or the first line that is one digit up to 7
RECURSIVE StarsOf(_)
StarsOf(lines) ==
    IF lines = <<>> THEN <<>>
    ELSE LET line == Head(lines)
             v == ParseInt(FirstNumber(line))
             t == TrimSpace(line)
         IN IF Contains(ToLower(line), <<"s","t","a","r">>) /\ v.ok THEN <<v.val>>
            ELSE IF Len(t) = 1 /\ IsDigit(t[1]) /\ DigitVal(t[1]) <= 7
                 THEN <<t>>
            ELSE StarsOf(Tail(lines))

\* extractCenterInfo
extractCenterInfo(text) ==
    [totalScore |-> TotalScoreOf(Lines(text)),
     starsAchieved |-> StarsOf(Lines(text))]

\* digits without their trailing zeros
RECURSIVE NoTrailingZeros(_)
NoTrailingZeros(d) ==
    IF d # <<>> /\ d[Len(d)] = "0"
    THEN NoTrailingZeros(SubSeq(d, 1, Len(d) - 1))
    ELSE d

\* regexp (\d+\.?\d*)% matched at the beginning of s, and
\* strconv.ParseFloat of the group: the whole part and the decimals
PercentAt(s) ==
    LET w == DigitPrefix(s)
        r == SubSeq(s, Len(w) + 1, Len(s))
        f == DigitPrefix(Tail(r))
        q == SubSeq(r, Len(f) + 2, Len(r))
    IN IF w = <<>> \/ r = <<>> THEN [ok |-> FALSE]
       ELSE IF r[1] = "%"
            THEN [ok |-> TRUE,
                  val |-> [whole |-> Canonical(w), decimals |-> <<>>]]
       ELSE IF r[1] = "." /\ q # <<>> /\ q[1] = "%"
            THEN [ok |-> TRUE,
                  val |-> [whole |-> Canonical(w),
                           decimals |-> NoTrailingZeros(f)]]
       ELSE [ok |-> FALSE]

\* FindStringSubmatch of that regexp: the leftmost match in s
RECURSIVE FirstPercent(_)
FirstPercent(s) ==
    IF s = <<>> THEN [ok |-> FALSE]
    ELSE IF PercentAt(s).ok THEN PercentAt(s)
    ELSE FirstPercent(Tail(s))

\* db.Player{}
NoPlayer ==
    [name |-> <<>>, instrument |-> <<>>, difficulty |-> <<>>,
     score |-> <<>>, combo |-> <<>>, accuracy |-> <<>>, misses |-> <<>>,
     rank |-> <<>>]

\* the line names a difficulty
NamesDifficulty(line) ==
    \/ Contains(ToLower(line), <<"e","a","s","y">>)
    \/ Contains(ToLower(line), <<"m","e","d","i","u","m">>)
    \/ Contains(ToLower(line), <<"h","a","r","d">>)
    \/ Contains(ToLower(line), <<"e","x","p","e","r","t">>)

\* the loop body with a score rule that overwrites a score already set
StatsLastScore(p, line) ==
    LET sc == ParseInt(Cleaned(line))
        ac == FirstPercent(line)
        n == ParseInt(FirstNumber(line))
        p1 == IF isNumeric(line) /\ Len(Cleaned(line)) > 3 /\ sc.ok
              THEN [p EXCEPT !.score = <<sc.val>>] ELSE p
        p2 == IF Contains(line, <<"%">>) /\ ac.ok
              THEN [p1 EXCEPT !.accuracy = <<ac.val>>] ELSE p1
        p3 == IF Contains(ToLower(line), <<"m","i","s","s">>) /\ n.ok
              THEN [p2 EXCEPT !.misses = <<n.val>>] ELSE p2
    IN IF /\ \/ Contains(ToLower(line), <<"c","o","m","b","o">>)
             \/ Contains(ToLower(line), <<"s","t","r","e","a","k">>)
          /\ n.ok
       THEN [p3 EXCEPT !.combo = <<n.val>>] ELSE p3

\* extractPlayers, the part of the loop body after the name and the
\* difficulty: score, accuracy, misses and combo read from the line
Stats(p, line) ==
    LET sc == ParseInt(Cleaned(line))
        ac == FirstPercent(line)
        n == ParseInt(FirstNumber(line))
        p1 == IF /\ isNumeric(line) /\ Len(Cleaned(line)) > 3 /\ sc.ok
                 /\ p.score = <<>>
              THEN [p EXCEPT !.score = <<sc.val>>] ELSE p
        p2 == IF Contains(line, <<"%">>) /\ ac.ok
              THEN [p1 EXCEPT !.accuracy = <<ac.val>>] ELSE p1
        p3 == IF Contains(ToLower(line), <<"m","i","s","s">>) /\ n.ok
              THEN [p2 EXCEPT !.misses = <<n.val>>] ELSE p2
    IN IF /\ \/ Contains(ToLower(line), <<"c","o","m","b","o">>)
             \/ Contains(ToLower(line), <<"s","t","r","e","a","k">>)
          /\ n.ok
       THEN [p3 EXCEPT !.combo = <<n.val>>] ELSE p3

\* the loop with the player being collected saved at the end of the text
\* whether or not it has a name
RECURSIVE PlayersFromUnnamed(_, _, _, _)
PlayersFromUnnamed(lines, i, players, currentPlayer) ==
    IF i > Len(lines)
    THEN IF currentPlayer # NoPlayer THEN Append(players, currentPlayer)
         ELSE players
    ELSE LET line == TrimSpace(lines[i])
             p == Stats(currentPlayer, line)
         IN IF line = <<>>
            THEN PlayersFromUnnamed(lines, i + 1, players, currentPlayer)
            ELSE IF currentPlayer.name = <<>> /\ ~isNumeric(line)
            THEN PlayersFromUnnamed(lines, i + 1, players,
                                    [currentPlayer EXCEPT !.name = line])
            ELSE IF NamesDifficulty(line)
            THEN PlayersFromUnnamed(lines, i + 1, players,
                                    [currentPlayer EXCEPT
                                        !.difficulty = <<normalizeDifficulty(line)>>])
            ELSE IF /\ p.name # <<>>
                    /\ (i = Len(lines) \/ isPlayerSeparator(line))
            THEN PlayersFromUnnamed(lines, i + 1, Append(players, p), NoPlayer)
            ELSE PlayersFromUnnamed(lines, i + 1, players, p)

\* extractPlayers, the loop from line i on, with the players saved so far
\* and the player being collected
RECURSIVE PlayersFrom(_, _, _, _)
PlayersFrom(lines, i, players, currentPlayer) ==
    IF i > Len(lines)
    THEN IF currentPlayer.name # <<>> THEN Append(players, currentPlayer)
         ELSE players
    ELSE LET line == TrimSpace(lines[i])
             p == Stats(currentPlayer, line)
         IN IF line = <<>>
            THEN PlayersFrom(lines, i + 1, players, currentPlayer)
            ELSE IF currentPlayer.name = <<>> /\ ~isNumeric(line)
            THEN PlayersFrom(lines, i + 1, players,
                             [currentPlayer EXCEPT !.name = line])
            ELSE IF NamesDifficulty(line)
            THEN PlayersFrom(lines, i + 1, players,
                             [currentPlayer EXCEPT
                                 !.difficulty = <<normalizeDifficulty(line)>>])
            ELSE IF /\ p.name # <<>>
                    /\ (i = Len(lines) \/ isPlayerSeparator(line))
            THEN PlayersFrom(lines, i + 1, Append(players, p), NoPlayer)
            ELSE PlayersFrom(lines, i + 1, players, p)

\* extractPlayers
extractPlayers(text) == PlayersFrom(Lines(text), 1, <<>>, NoPlayer)

(***************************************************************************)
(* Extraction from recognised text on its own.                             *)
(***************************************************************************)
\* texts of the top-left region: artist, song and charter lines, the
\* charter with and without its label, the label in capitals, the label
\* alone, lines missing, blank lines
TopLeftTexts ==
    {
      <<"D","a","v","e"," ","M","a","t","t","h","e","w","s"," ","B","a","n",
        "d","\n","T","r","i","p","p","i","n","g"," ","B","i","l","l","i",
        "e","s","\n","C","h","a","r","t","e","r",":"," ","C","u","s","t",
        "o","m">>,
      <<"D","a","v","e"," ","M","a","t","t","h","e","w","s"," ","B","a","n",
        "d","\n","T","r","i","p","p","i","n","g"," ","B","i","l","l","i",
        "e","s","\n","c","h","a","r","t","e","r",":","C","u","s","t","o",
        "m">>,
      <<"D","a","v","e"," ","M","a","t","t","h","e","w","s"," ","B","a","n",
        "d","\n","\n"," ","T","r","i","p","p","i","n","g"," ","B","i","l",
        "l","i","e","s"," ","\n","C","u","s","t","o","m","\n">>,
      <<"D","a","v","e"," ","M","a","t","t","h","e","w","s"," ","B","a","n",
        "d","\n","T","r","i","p","p","i","n","g"," ","B","i","l","l","i",
        "e","s","\n","C","h","a","r","t","e","r",":">>,
      <<"D","a","v","e"," ","M","a","t","t","h","e","w","s"," ","B","a","n",
        "d">>,
      <<"A","\n","B","\n","C","H","A","R","T","E","R",":"," ","C","u","s",
        "t","o","m">>,
      <<"A","\n","B","\n","C","H","A","R","T","E","R",":">>,
      <<"A","\n","B">>,
      <<>> }

\* texts of the center region: score and stars in either order, a bare
\* star digit, a digit above 7, a number beyond 64 bits, nothing
CenterTexts ==
    {
      <<"4","4","7","2","5","3","\n","S","t","a","r","s",":"," ","4">>,
      <<"S","t","a","r","s",":"," ","4","\n","4","4","7",",","2","5","3">>,
      <<"4","4","7","2","5","3","\n","4">>,
      <<"S","c","o","r","e","\n","9">>,
      <<"9","2","2","3","3","7","2","0","3","6","8","5","4","7","7","5","8",
        "0","8","\n","s","t","a","r","s">>,
      <<>> }

\* texts of the players region: one player, two players around a
\* separator, statistics without a name, a name alone, nothing
PlayersTexts ==
    {
      <<"A","_","H","o","l","e","_","P","r","o","\n","E","x","p","e","r",
        "t","\n","6","8","5","0","8","\n","8","1",".","0","%","\n","M","i",
        "s","s","e","s",":"," ","0","\n","C","o","m","b","o",":"," ","1",
        "0","0">>,
      <<"A","_","H","o","l","e","_","P","r","o","\n","e","x","p","e","r",
        "t"," ","m","o","d","e","\n","6","8",",","5","0","8","\n","8","1",
        ".","%","\n","2"," ","m","i","s","s","e","s","\n","B","e","s","t",
        " ","S","t","r","e","a","k",":"," ","1","0","0","\n","-","-","-",
        "\n","B","\n","H","a","r","d","\n","1","0","0">>,
      <<"6","8","5","0","8","\n","8","1",".","0","%">>,
      <<"A","_","H","o","l","e","_","P","r","o">>,
      <<>> }

ExtractInit ==
    \E tl \in TopLeftTexts, ce \in CenterTexts, pl \in PlayersTexts :
        Drawn([topLeft |-> tl, center |-> ce, players |-> pl])

\* the fields that ParseImage takes from the three regions
Extraction(a) ==
    LET tl == extractTopLeftInfo(a.topLeft)
        ce == extractCenterInfo(a.center)
    IN [artist |-> tl.artist, songName |-> tl.songName,
        charter |-> tl.charter, totalScore |-> ce.totalScore,
        starsAchieved |-> ce.starsAchieved,
        players |-> extractPlayers(a.players)]

Extract == Returns("extract", Extraction(arg))

ExtractSpec == ExtractInit /\ [][Extract]_vars

(***************************************************************************)
(* ParseImage as a whole.  Its input is the path, what the file system     *)
(* answers for it (stat, open, decode) and the text recognised in the      *)
(* three regions of the decoded image.                                     *)
(***************************************************************************)
\* loadImage: the extension, os.Open and png.Decode
loadImage(a) ==
    IF ToLower(Ext(a.path)) # <<".","p","n","g">>
    THEN [ok |-> FALSE, err |-> "only PNG files are supported"]
    ELSE IF ~a.open THEN [ok |-> FALSE, err |-> "open"]
    ELSE IF ~a.png THEN [ok |-> FALSE, err |-> "failed to decode PNG"]
    ELSE [ok |-> TRUE]

\* missingFields, in the order ParseImage appends them
MissingFields(e) ==
    (IF TrimSpace(e.artist) # <<>> THEN <<>> ELSE <<"artist">>)
    \o (IF TrimSpace(e.songName) # <<>> THEN <<>> ELSE <<"song name">>)
    \o (IF e.totalScore # <<>> THEN <<>> ELSE <<"total score">>)
    \o (IF Len(e.players) > 0 THEN <<>> ELSE <<"players">>)

\* hasData
HasData(e) ==
    \/ TrimSpace(e.artist) # <<>>
    \/ TrimSpace(e.songName) # <<>>
    \/ e.totalScore # <<>>
    \/ Len(e.players) > 0

\* the warning is logged only when nothing at all was extracted
WarnsWithoutData(e) == ~HasData(e)

\* the condition under which ParseImage logs the OCR warning
Warns(e) == ~HasData(e) \/ Len(MissingFields(e)) >= 3

\* ParseImage: the record and nil, or nil and the error; warning tells
\* whether the OCR warning was logged
ParseImage(a) ==
    LET c == ResolveCreatedAt(a)
        img == loadImage(a)
        e == Extraction(a)
    IN IF ~c.ok
       THEN [ok |-> FALSE, err |-> "failed to get file info",
             warning |-> FALSE]
       ELSE IF ~img.ok
       THEN [ok |-> FALSE, err |-> "failed to load image",
             warning |-> FALSE]
       ELSE [ok |-> TRUE,
             record |-> [artist |-> e.artist, songName |-> e.songName,
                         charter |-> e.charter,
                         totalScore |-> e.totalScore,
                         starsAchieved |-> e.starsAchieved,
                         players |-> e.players,
                         createdAt |-> c.createdAt],
             warning |-> Warns(e)]

\* names of screenshots: with and without a timestamp, the extensions
\* that the watcher lets through in both letter cases, and no extension
ParseNames ==
    { <<"c","l","o","n","e","h","e","r","o","-","A","r","t","i","s","t","-","2","0","2","5","1","2","1","2","0","5","2","2","3","1",".","p","n","g">>,
      <<"s","h","o","t",".","p","n","g">>,
      <<"s","h","o","t",".","P","N","G">>,
      <<"s","h","o","t",".","j","p","g">>,
      <<"2","0","2","5","1","2","1","2","0","5","2","2","3","1",".","J","P","E","G">>,
      <<"s","h","o","t",".","w","e","b","p">>,
      <<"s","h","o","t">> }

\* what the file system can answer for a path: the file is missing, it
\* exists and cannot be opened, it opens and is no PNG image, it opens and
\* decodes
FileAnswers ==
    { [stat |-> FALSE, open |-> FALSE, png |-> FALSE],
      [stat |-> TRUE, open |-> FALSE, png |-> FALSE],
      [stat |-> TRUE, open |-> TRUE, png |-> FALSE],
      [stat |-> TRUE, open |-> TRUE, png |-> TRUE] }

\* recognised texts of one image: each region either as in the example of
\* the specification, or partly recognised, or empty
RegionTexts ==
    [topLeft : {<<"D","a","v","e"," ","M","a","t","t","h","e","w","s"," ","B","a","n","d","\n","T","r","i","p","p","i","n","g"," ","B","i","l","l","i","e","s","\n","C","h","a","r","t","e","r",":"," ","C","u","s","t","o","m">>,
                <<"D","a","v","e"," ","M","a","t","t","h","e","w","s"," ","B","a","n","d">>,
                <<" ">>, <<>>},
     center : {<<"4","4","7","2","5","3","\n","S","t","a","r","s",":"," ","4">>, <<"S","t","a","r","s",":"," ","4">>, <<>>},
     players : {<<"A","_","H","o","l","e","_","P","r","o","\n","E","x","p","e","r","t","\n","6","8","5","0","8">>, <<"6","8","5","0","8">>, <<>>}]

ParseInit ==
    \E n \in ParseNames, f \in FileAnswers, r \in RegionTexts :
        Drawn([path |-> Join(watchDir, n), stat |-> f.stat,
               modTime |-> ModTime, open |-> f.open, png |-> f.png,
               topLeft |-> r.topLeft, center |-> r.center,
               players |-> r.players])

Parse == Returns("ParseImage", ParseImage(arg))

ParseSpec == ParseInit /\ [][Parse]_vars

(***************************************************************************)
(* isNumeric and the cleaning of a numeric line, applied to a line and     *)
(* then to the cleaned line.                                               *)
(***************************************************************************)
MaxLine == 4

\* the characters of a line: digits, the separators, a letter, a point
LineChars == {"0", "7", ",", " ", "a", "."}

\* the lines of at most MaxLine characters
LinesUpTo(n) == UNION {[1..k -> LineChars] : k \in 0..n}

NumericInit == \E l \in LinesUpTo(MaxLine) : Drawn([line |-> l])

\* extractPlayers on a score line: isNumeric, then the line cleaned
Classify(line) == [numeric |-> isNumeric(line), cleaned |-> Cleaned(line)]

Clean == Returns("clean", Classify(arg.line))

\* the same, on the cleaned line
Reclean ==
    /\ out.done
    /\ out.fn = "clean"
    /\ out' = [done |-> TRUE, fn |-> "reclean", first |-> out.val,
               val |-> Classify(out.val.cleaned)]
    /\ UNCHANGED <<watcher, db, tx, arg>>

NumericSpec == NumericInit /\ [][Clean \/ Reclean]_vars

(***************************************************************************)
(* normalizeDifficulty, applied to a text and then to its own result.      *)
(***************************************************************************)
MaxWords == 3

\* pieces of text: the four difficulties in several letter cases, and
\* pieces that name none
DifficultyWords ==
    { <<"e","x","p","e","r","t">>,
      <<"E","X","P","E","R","T">>,
      <<"E","x","P","e","R","t">>,
      <<"h","a","r","d">>,
      <<"H","a","R","d">>,
      <<"m","e","d","i","u","m">>,
      <<"M","e","d","i","u","m">>,
      <<"e","a","s","y">>,
      <<"E","A","S","Y">>,
      <<" ","m","o","d","e"," ">>,
      <<"E","x","p","e","r">>,
      <<"x">> }

\* the concatenation of the pieces of ws
RECURSIVE Concat(_)
Concat(ws) == IF ws = <<>> THEN <<>> ELSE Head(ws) \o Concat(Tail(ws))

\* the texts made of at most n pieces
TextsUpTo(n) ==
    {Concat(ws) : ws \in UNION {[1..k -> DifficultyWords] : k \in 0..n}}

DifficultyInit == \E t \in TextsUpTo(MaxWords) : Drawn([text |-> t])

Normalize == Returns("normalize", normalizeDifficulty(arg.text))

Renormalize ==
    /\ out.done
    /\ out.fn = "normalize"
    /\ out' = [done |-> TRUE, fn |-> "renormalize", first |-> out.val,
               val |-> normalizeDifficulty(out.val)]
    /\ UNCHANGED <<watcher, db, tx, arg>>

DifficultySpec == DifficultyInit /\ [][Normalize \/ Renormalize]_vars

(***************************************************************************)
(* isPlayerSeparator on its own.                                           *)
(***************************************************************************)
\* the characters of a line of the players region: dash, white space, a
\* letter, a digit
SeparatorChars == {"-", " ", "\t", "P", "1"}

\* the lines of at most MaxLine of these characters, and the line of the
\* specification's example
SeparatorLines ==
    UNION {[1..k -> SeparatorChars] : k \in 0..MaxLine}
        \cup {<<"P","l","a","y","e","r","-","1">>, <<" ","-","-","-","-","-","-"," ">>}

SeparatorInit == \E l \in SeparatorLines : Drawn([line |-> l])

Separator == Returns("isPlayerSeparator", isPlayerSeparator(arg.line))

SeparatorSpec == SeparatorInit /\ [][Separator]_vars

(***************************************************************************)
(* The OCR client.  main creates one Parser, whose gosseract client is     *)
(* used by every call of ParseImage; watchLoop and pollLoop call the       *)
(* handler from two goroutines and Parser has no lock.  extractText loads  *)
(* the region into the client with SetImage and then asks the client for   *)
(* the text of the image it holds.                                         *)
(***************************************************************************)
Callers == {"watchLoop", "pollLoop"}

\* the regions in the order in which ParseImage extracts them
OcrRegions == <<"topLeft", "center", "players">>

OcrTexts == {<<"1">>, <<"2">>}

\* the screenshots: what is written in each region
Screenshots == [Range(OcrRegions) -> OcrTexts]

\* no image has been loaded into the client
NoImage == <<>>

OcrInit ==
    /\ AtRest
    /\ db = EmptyDb
    /\ tx = NoTx
    /\ \E f \in [Callers -> Screenshots] : arg = [img |-> f]
    /\ out = [done |-> FALSE, image |-> NoImage,
              at |-> [t \in Callers |-> 1],
              loaded |-> [t \in Callers |-> FALSE],
              text |-> [t \in Callers |-> <<>>]]

\* p.client.SetImage(tmpPath): the client holds the region of t's file
SetImage(t) ==
    /\ out.at[t] <= Len(OcrRegions)
    /\ ~out.loaded[t]
    /\ out' = [out EXCEPT !.image = <<t, OcrRegions[out.at[t]]>>,
                          !.loaded[t] = TRUE]
    /\ UNCHANGED <<watcher, db, tx, arg>>

\* what the client recognizes in the image it holds
Recognized(image) == arg.img[image[1]][image[2]]

\* p.client.Text(): the text of the image the client holds now;
\* extractText returns it and ParseImage goes on to the next region
Text(t) ==
    /\ out.loaded[t]
    /\ out' = [out EXCEPT !.text[t] = Append(@, Recognized(out.image)),
                          !.loaded[t] = FALSE,
                          !.at[t] = @ + 1]
    /\ UNCHANGED <<watcher, db, tx, arg>>

extractText == \E t \in Callers : SetImage(t) \/ Text(t)

OcrSpec == OcrInit /\ [][extractText]_vars

(***************************************************************************)
(* The three regions of a loaded image.  Each extractor crops its region   *)
(* and hands it to extractText, which recognises nothing in an image       *)
(* without pixels.                                                         *)
(***************************************************************************)
MaxSide == 7

\* the rectangle that the extractor of region r passes to cropImage
RegionOf(r, img) ==
    LET width == Dx(img)
        height == Dy(img)
    IN IF r = "topLeft"
       THEN cropImage(img, 0, 0, (width * 30) \div 100, (height * 20) \div 100)
       ELSE IF r = "center"
       THEN cropImage(img, (width * 30) \div 100, 0, (width * 70) \div 100,
                      (height * 25) \div 100)
       ELSE cropImage(img, 0, (height * 25) \div 100, width,
                      (height * 90) \div 100)

\* extractText without its check of the bounds
TextOfRegionUnchecked(region, written) == [ocr |-> TRUE, text |-> written]

\* extractText: written is what the OCR client reads in the region; ocr
\* tells whether the client was used
TextOfRegion(region, written) ==
    IF Dx(region.bounds) = 0 \/ Dy(region.bounds) = 0
    THEN [ocr |-> FALSE, text |-> <<>>]
    ELSE [ocr |-> TRUE, text |-> written]

\* ParseImage after loadImage: the regions, the text of each region and
\* the record; extractTopLeftInfo returns before extractText when its
\* region is empty
ParseRegions(a) ==
    LET region == [r \in Range(OcrRegions) |-> RegionOf(r, a.img)]
        tl == IF Dx(region["topLeft"].bounds) = 0
                 \/ Dy(region["topLeft"].bounds) = 0
              THEN [ocr |-> FALSE, text |-> <<>>]
              ELSE TextOfRegion(region["topLeft"], a.topLeft)
        read == [r \in Range(OcrRegions) |->
                    IF r = "topLeft" THEN tl
                    ELSE TextOfRegion(region[r], a[r])]
    IN [ok |-> TRUE, region |-> region, read |-> read,
        record |-> Extraction([r \in Range(OcrRegions) |-> read[r].text])]

\* images as loadImage returns them; a side is 0 when the resizer has
\* scaled it below one pixel
LoadedImages == {Rect(0, 0, w, h) : w \in 0..MaxSide, h \in 0..MaxSide}

RegionInit ==
    \E img \in LoadedImages :
        Drawn([img |-> img,
               topLeft |-> <<"D","a","v","e","\n","T","r","i","p">>,
               center |-> <<"4","4","7","2","5","3","\n","S","t","a","r","s",":"," ","4">>,
               players |-> <<"A","_","H","o","l","e","\n","E","x","p","e","r","t","\n","6","8","5","0","8">>])

Regions == Returns("regions", ParseRegions(arg))

RegionSpec == RegionInit /\ [][Regions]_vars

(***************************************************************************)
(* extractPlayers on the lines of a players region.                        *)
(***************************************************************************)
MaxPlayerLines == 4

\* lines of a players region: two names, two difficulties, scores (plain,
\* grouped, too short, beyond 64 bits), a line with an accuracy and a miss
\* count, a dashed line and a blank line
PlayerLines ==
    { <<"A">>, <<"B">>, <<"H","a","r","d">>, <<"E","x","p","e","r","t">>,
      <<"6","8","5","0","8">>, <<"1",",","2","3","4">>, <<"1","0","0">>,
      <<"9","9","9","9","9","9","9","9","9","9","9","9","9","9","9","9","9","9","9","9">>,
      <<"9","7","%"," ","3"," ","m","i","s","s","e","s">>,
      <<"-","-","-">>, <<>> }

\* the text whose lines are ls
RECURSIVE JoinLines(_)
JoinLines(ls) ==
    IF ls = <<>> THEN <<>>
    ELSE IF Len(ls) = 1 THEN ls[1]
    ELSE ls[1] \o <<"\n">> \o JoinLines(Tail(ls))

PlayersInit ==
    \E k \in 0..MaxPlayerLines : \E ls \in [1..k -> PlayerLines] :
        Drawn([lines |-> ls, text |-> JoinLines(ls)])

Players == Returns("extractPlayers", extractPlayers(arg.text))

PlayersSpec == PlayersInit /\ [][Players]_vars

(***************************************************************************)
(* extractCenterInfo on the lines of a center region.                      *)
(***************************************************************************)
MaxCenterLines == 3

\* lines of a center region: star lines with and without a number, in
\* either letter case, single digits within and beyond 7, a score, a word
CenterLines ==
    { <<"S","t","a","r","s",":"," ","4">>, <<"5"," ","S","T","A","R","S">>,
      <<"s","t","a","r","s">>, <<"3">>, <<"9">>,
      <<"4","4","7","2","5","3">>, <<"S","c","o","r","e">> }

CenterInit ==
    \E k \in 0..MaxCenterLines : \E ls \in [1..k -> CenterLines] :
        Drawn([lines |-> ls, text |-> JoinLines(ls)])

Center == Returns("extractCenterInfo", extractCenterInfo(arg.text))

CenterSpec == CenterInit /\ [][Center]_vars

(***************************************************************************)
(* loadImage: the size of the image it returns.  scale is a float64        *)
(* quotient and each new side is the product of the side and scale cut to  *)
(* an integer.  Quotient and product are each rounded to the nearest       *)
(* float64, so for sides of this range the product is off the exact value  *)
(* by less than the distance to the next integer, and cutting it gives the *)
(* whole part of the exact value, or one less when the exact value is an   *)
(* integer and the product was rounded to just below it.                   *)
(***************************************************************************)
MaxPixels == 6

MaxLimit == 4

\* int(float64(side) * scale) for scale = float64(num) / float64(den)
ScaledSide(side, num, den) ==
    LET q == (side * num) \div den
    IN IF (side * num) % den = 0 THEN {q, q - 1} ELSE {q}

\* the sizes with the scale taken from the widths alone
ResizedByWidth(width, height, maxWidth, maxHeight) ==
    IF maxWidth > 0 /\ maxHeight > 0
       /\ (width > maxWidth \/ height > maxHeight)
    THEN {[w |-> nw, h |-> nh] :
             nw \in ScaledSide(width, maxWidth, width),
             nh \in ScaledSide(height, maxWidth, width)}
    ELSE {[w |-> width, h |-> height]}

\* loadImage after png.Decode: the sizes the returned image can have
Resized(width, height, maxWidth, maxHeight) ==
    IF maxWidth > 0 /\ maxHeight > 0
       /\ (width > maxWidth \/ height > maxHeight)
    THEN LET byHeight == maxHeight * width < maxWidth * height
             num == IF byHeight THEN maxHeight ELSE maxWidth
             den == IF byHeight THEN height ELSE width
         IN {[w |-> nw, h |-> nh] :
                nw \in ScaledSide(width, num, den),
                nh \in ScaledSide(height, num, den)}
    ELSE {[w |-> width, h |-> height]}

ResizeInit ==
    \E width \in 1..MaxPixels, height \in 1..MaxPixels,
       maxWidth \in (0 - 1)..MaxLimit, maxHeight \in (0 - 1)..MaxLimit :
        Drawn([width |-> width, height |-> height, maxWidth |-> maxWidth,
               maxHeight |-> maxHeight])

Resize ==
    \E r \in Resized(arg.width, arg.height, arg.maxWidth, arg.maxHeight) :
        Returns("loadImage", r)

ResizeSpec == ResizeInit /\ [][Resize]_vars

TypeOK ==
    /\ processed \subseteq {PathOf(n) : n \in Names}
    /\ \A t \in Threads : cur[t] \in Names \cup {NoName}
    /\ \A n \in Names :
          state[n] \in {"None", "Processing", "Processed", "Failed"}


(***************************************************************************)
(* Properties.                                                             *)
(***************************************************************************)
\* the positions at which onNewFile has been called for cur[t] and
\* handleFile has not returned yet
Handling(t) ==
    pc[t] \in {"handler", "mvBegin", "mvRename", "mvRenamed", "mvCopied",
               "mvRemove", "ret"}

\* Start has returned, with the loops launched
Started == pc["Start"] \in {"done", "doneUnscanned"}

\* the extensions of the specification, matched against the end of the
\* lower-cased name
AllowedExtensions ==
    { <<".","p","n","g">>, <<".","j","p","g">>, <<".","j","p","e","g">>,
      <<".","w","e","b","p">> }

HasAllowedExtension(n) ==
    \E e \in AllowedExtensions :
        /\ Len(n) >= Len(e)
        /\ ToLower(SubSeq(n, Len(n) - Len(e) + 1, Len(n))) = e

\* the file of name n (and not an older file of that name) is in directory d
InDir(d, n) == fs[d][n].exists /\ fs[d][n] # Stale

IsPrefix(a, b) == Len(a) <= Len(b) /\ SubSeq(b, 1, Len(a)) = a

\* C1: a path that both watchLoop and pollLoop discover is handed to
\* onNewFile once: the two loops are never both inside a handleFile call
\* that has invoked the handler for the same path.
C1_HandlerOncePerPath ==
    ~ /\ Handling("watchLoop")
      /\ Handling("pollLoop")
      /\ cur["watchLoop"] = cur["pollLoop"]

\* C2: a path never leaves a terminal state: no goroutine invokes the
\* handler for a path whose handling has ended as Processed or as Failed.
C2_TerminalNeverRevisited ==
    [][\A t \in Threads :
          (pc[t] = "enter" /\ pc'[t] = "handler")
              => state[cur[t]] \notin {"Processed", "Failed"}]_vars

\* what C3 states of the file cur[t] when the handler returned res[t]
Relocated(t) ==
    LET n == cur[t]
        inProcessed == InDir(ProcessedPath, n)
        inFailed == InDir(FailedPath, n)
    IN /\ inProcessed <=> (res[t] = "ok" /\ processedDir # NoDir)
       /\ inFailed <=> (res[t] = "err" /\ failedDir # NoDir)
       /\ ~(inProcessed /\ inFailed)
       /\ (inProcessed \/ inFailed) => ~fs[watchDir][n].exists
       /\ TargetDir(res[t]) = NoDir => fs[watchDir][n].exists

\* C3: when the handling of a file completes and the relocation, if one
\* was attempted, succeeded: the file is in the processed directory iff
\* the handler succeeded and that directory is configured, in the failed
\* directory iff the handler failed and that directory is configured,
\* never in both, then no longer in the watch directory, and still in the
\* watch directory when the matching directory is not configured.
C3_RelocationMatchesOutcome ==
    [][\A t \in Threads :
          (pc[t] # "ret" /\ pc'[t] = "ret" /\ mv'[t].err \in {"nil", "none"})
              => Relocated(t)']_vars

\* C4: no per-file or per-cycle error stops the watcher: a loop returns
\* only from its select, on the shutdown signal or (watchLoop) on the
\* closure of the notification channels; after a handler error, a
\* relocation error or a failed directory listing it goes on with its cycle.
C4_LoopsSurviveErrors ==
    [][\A t \in Loops :
          (pc[t] # "returned" /\ pc'[t] = "returned") =>
              /\ pc[t] = "select"
              /\ ctxDone \/ (t = "watchLoop" /\ closed)]_vars

\* a loop runs the handler for a file that arrived after Start was called
\* while the handling of an earlier file has ended in failure and the poll
\* loop has just failed to list the directory
C4_Witness ==
    \E t \in Loops, m \in Names :
        /\ pc[t] = "handler"
        /\ cur[t] \notin existing
        /\ m # cur[t]
        /\ state[m] = "Failed"
        /\ readDirFails > 0

\* C5 as stated: the files present when Start is called are handed to the
\* handler before the live watch begins: whenever a loop exists, the
\* startup scan has returned and every pre-existing file with an image
\* extension has been handed to the handler.
C5_ExistingHandledBeforeWatch ==
    \A t \in Loops :
        pc[t] # "idle" =>
            /\ Started
            /\ cur["Start"] = NoName /\ entries["Start"] = <<>>
            /\ \A n \in existing : isImageFile(n) => state[n] # "None"

\* C5, amended: the loops are started only after processExistingFiles has
\* returned, and when its listing of the watch directory succeeded every
\* pre-existing file with an image extension has by then been handed to
\* the handler.
C5_ScanBeforeLiveWatch ==
    \A t \in Loops :
        pc[t] # "idle" =>
            /\ Started
            /\ cur["Start"] = NoName /\ entries["Start"] = <<>>
            /\ pc["Start"] = "done" =>
                  \A n \in existing : isImageFile(n) => state[n] # "None"

C5_Witness ==
    \E t \in Loops, n \in existing :
        /\ pc[t] = "handler"
        /\ cur[t] \notin existing
        /\ pc["Start"] = "done"
        /\ isImageFile(n)
        /\ state[n] \in {"Processed", "Failed"}

\* C6: on every discovery channel the handler is invoked only for names
\* with an allowed image extension (.png, .jpg, .jpeg, .webp in any letter
\* case): a file with another extension is never selected, never handed to
\* the handler and never relocated; it stays in the watch directory.
C6_OnlyImagesHandled ==
    \A n \in Names :
        ~HasAllowedExtension(n) =>
            /\ \A t \in Threads : cur[t] # n
            /\ state[n] = "None"
            /\ ~fs[ProcessedPath][n].exists
            /\ ~fs[FailedPath][n].exists
            /\ n \in born => fs[watchDir][n].exists

\* a file without an image extension was in the directory the scan
\* listed and is still there untouched, while an image file with an
\* upper-case extension has been handled
C6_Witness ==
    \E n \in existing, m \in Names :
        /\ ~HasAllowedExtension(n)
        /\ pc["Start"] = "done"
        /\ fs[watchDir][n].exists
        /\ state[n] = "None"
        /\ m = <<"B",".","P","N","G">>
        /\ state[m] = "Processed"

\* C7: on every discovery channel the handler starts only after a non-zero
\* debounce delay has elapsed since the file was detected.
C7_DebounceBeforeHandler ==
    \A t \in Threads : pc[t] = "handler" => waited[t] > 0

\* C8: poll fallback liveness: while the poll loop runs and is scheduled
\* fairly, a file with an allowed extension that is in the watch directory
\* and whose path is not in the handled set is eventually handed to the
\* handler, unless it leaves the directory, its path joins the handled set
\* or shutdown is signalled first; no notification is needed for it.
C8_PollFallbackLiveness ==
    \A n \in Names :
        (/\ HasAllowedExtension(n)
         /\ fs[watchDir][n].exists
         /\ PathOf(n) \notin processed
         /\ pc["pollLoop"] \notin {"idle", "returned"})
        ~> (\/ \E t \in Threads : pc[t] = "handler" /\ cur[t] = n
            \/ ~fs[watchDir][n].exists
            \/ PathOf(n) \in processed
            \/ ctxDone)

\* the poll loop runs the handler for a file that arrived after Start and
\* for which no notification is queued, the watch loop waiting
C8_Witness ==
    /\ pc["pollLoop"] = "handler"
    /\ cur["pollLoop"] \notin existing
    /\ pc["watchLoop"] = "select"
    /\ events = <<>>
    /\ ~ctxDone

\* C9: when the rename has failed and the copy and the removal of the
\* source succeed, moveFile returns nil with the destination holding the
\* bytes the source had and the source removed.
C9_CopyFallbackMoves ==
    [][\A t \in Threads :
          (pc[t] = "mvRemove" /\ pc'[t] = "ret" /\ mv'[t].err = "nil") =>
              /\ mv[t].via = "copy"
              /\ Dest(t)' = File(mv[t].orig)
              /\ ~Src(t)'.exists]_vars

\* C10: when the copy is verified and the removal of the source fails,
\* moveFile returns an error no other path returns, and both files are
\* left in place: the destination is the complete copy and the source
\* still holds the bytes it had.
C10_RemoveFailureKeepsBoth ==
    [][\A t \in Threads :
          (pc[t] # "ret" /\ pc'[t] = "ret" /\ mv'[t].err = RemoveSourceError)
              => /\ pc[t] = "mvRemove"
                 /\ mv[t].via = "copy"
                 /\ Dest(t)' = File(mv[t].orig)
                 /\ Src(t)'.exists
                 /\ IsPrefix(mv[t].orig, Src(t)'.data)]_vars

\* C11: after the context is cancelled, each loop that has been started
\* eventually returns (every handler call and file operation in progress
\* returning).
C11_LoopsStopAfterCancel ==
    \A t \in Loops : (ctxDone /\ pc[t] # "idle") ~> (pc[t] = "returned")

\* both loops have returned after the cancellation, a file having been
\* handled by one of them before
C11_Witness ==
    /\ ctxDone
    /\ \A t \in Loops : pc[t] = "returned"
    /\ \E n \in Names : n \notin existing /\ state[n] \in {"Processed", "Failed"}

\* the goroutine is inside the handler or inside moveFile
InFlight(t) ==
    pc[t] \in {"handler", "mvBegin", "mvRename", "mvRenamed", "mvCopied",
               "mvRemove"}

\* C12: on shutdown a handling in flight runs to its end: the process does
\* not exit while a goroutine is inside the handler or partway through a
\* relocation.
C12_InFlightCompletes ==
    ~Alive => \A t \in Loops : ~InFlight(t)

\* C13: CreateScore is all-or-nothing: while a call runs and after it
\* returned an error the committed rows are those present when it began;
\* after it returned nil exactly one score row, with the input's song,
\* artist and charter, and one player row per input player, in order and
\* attached to that score, have been added, and nothing else was removed.
C13_CreateScoreAtomic ==
    /\ tx.pc # "idle" => db = tx.before
    /\ tx.ret = "err" => db = tx.before
    /\ tx.ret = "ok" =>
          LET d == tx.data
              b == tx.before
              n == Len(b.scores) + 1
          IN /\ db.scores = Append(b.scores,
                                   [song |-> d.song, artist |-> d.artist,
                                    charter |-> d.charter])
             /\ Len(db.players) = Len(b.players) + Len(d.players)
             /\ SubSeq(db.players, 1, Len(b.players)) = b.players
             /\ \A k \in DOMAIN d.players :
                   db.players[Len(b.players) + k] =
                       [score |-> n, name |-> d.players[k]]
             /\ b.artists \subseteq db.artists
             /\ d.artist \in db.artists

\* a second call failed at a player insert after its first player row was
\* written, the first call having committed a score with two players
C13_Witness ==
    /\ tx.calls = 2
    /\ tx.ret = "err"
    /\ tx.i = 1
    /\ Len(db.scores) = 1
    /\ Len(db.players) = 2

\* the result of fn is known
Returned(fn) == out.done /\ out.fn = fn

\* the positions in s at which n consecutive digits begin
Runs(s, n) ==
    {i \in 1..(Len(s) - n + 1) : \A k \in i..(i + n - 1) : IsDigit(s[k])}

\* the date-time fields written by the 14 digits w
Fields(w) ==
    [year |-> Num(SubSeq(w, 1, 4)), month |-> Num(SubSeq(w, 5, 6)),
     day |-> Num(SubSeq(w, 7, 8)), hour |-> Num(SubSeq(w, 9, 10)),
     min |-> Num(SubSeq(w, 11, 12)), sec |-> Num(SubSeq(w, 13, 14))]

\* t is a date of the calendar and a time of the day
IsDateTime(t) ==
    /\ t.hour < 24 /\ t.min < 60 /\ t.sec < 60
    /\ t.day >= 1
    /\ \/ t.month \in {1, 3, 5, 7, 8, 10, 12} /\ t.day <= 31
       \/ t.month \in {4, 6, 9, 11} /\ t.day <= 30
       \/ t.month = 2 /\ t.day <= 28
       \/ /\ t.month = 2 /\ t.day = 29
          /\ t.year % 4 = 0
          /\ (t.year % 100 # 0 \/ t.year % 400 = 0)

\* the instants of the valid yyyyMMddHHmmss timestamps that the name n
\* embeds anywhere
EmbeddedInstants(n) ==
    {Fields(SubSeq(n, i, i + 13)) : i \in
        {j \in Runs(n, 14) : IsDateTime(Fields(SubSeq(n, j, j + 13)))}}

\* C14 as stated: for every name that embeds a valid timestamp the
\* function returns that instant, for every other name it fails, and every
\* record of ParseImage has createdAt set.
C14_EmbeddedTimestampReturned ==
    /\ Returned("parseTimestampFromFilename") =>
          LET e == EmbeddedInstants(Base(arg.path))
          IN IF e # {} THEN out.val.ok /\ out.val.time \in e
             ELSE ~out.val.ok
    /\ Returned("createdAt") /\ out.val.ok =>
          out.val.createdAt \in
              EmbeddedInstants(Base(arg.path)) \cup {arg.modTime}

\* C14, amended: only the first 14 consecutive digits of the name without
\* its extension are examined.  If they are a valid date-time the function
\* returns that instant, otherwise (or when there are none) it fails, also
\* when a valid timestamp follows later in the name.  ParseImage uses the
\* instant of the name, else the modification time of the file, else (the
\* file cannot be examined) returns an error and no record: every record it
\* returns has createdAt set.
C14_FirstRunTimestamp ==
    LET s == TrimExt(Base(arg.path))
        r == Runs(s, 14)
        first == CHOOSE i \in r : \A j \in r : i <= j
        w == SubSeq(s, first, first + 13)
        named == r # {} /\ IsDateTime(Fields(w))
    IN /\ Returned("parseTimestampFromFilename") =>
             IF named THEN out.val = [ok |-> TRUE, time |-> Fields(w)]
             ELSE ~out.val.ok
       /\ Returned("createdAt") =>
             /\ out.val.ok <=> (named \/ arg.stat)
             /\ out.val.ok =>
                   out.val.createdAt =
                       IF named THEN Fields(w) ELSE arg.modTime

\* the function has failed on a name whose first 14 digits are no
\* date-time and which embeds a valid timestamp after them
C14_Witness ==
    /\ Returned("parseTimestampFromFilename")
    /\ ~out.val.ok
    /\ EmbeddedInstants(Base(arg.path)) # {}

\* the part of img from which draw.Draw fills the returned image c
Region(c) ==
    [Min |-> c.sp, Max |-> [X |-> c.sp.X + Dx(c.bounds),
                            Y |-> c.sp.Y + Dy(c.bounds)]]

\* rectangle a lies within rectangle b
Within(a, b) ==
    /\ b.Min.X <= a.Min.X /\ a.Max.X <= b.Max.X
    /\ b.Min.Y <= a.Min.Y /\ a.Max.Y <= b.Max.Y

\* C15: for every image and every requested rectangle the region that
\* cropImage produces lies within [0,W]x[0,H]; its width is at most W, its
\* height at most H, and neither is negative.
C15_CropWithinImage ==
    Returned("cropImage") =>
        /\ 0 <= Dx(out.val.bounds) /\ Dx(out.val.bounds) <= Dx(arg.img)
        /\ 0 <= Dy(out.val.bounds) /\ Dy(out.val.bounds) <= Dy(arg.img)
        /\ Within(Region(out.val), arg.img)

\* C16: from the recognised texts of the example, extraction yields artist
\* 'Dave Matthews Band', songName 'Tripping Billies', charter 'Custom',
\* totalScore 447253, starsAchieved 4 and exactly one player: name
\* 'A_Hole_Pro', difficulty 'Expert', score 68508, accuracy 81.0, misses 0,
\* best streak 100.
C16_ExampleExtraction ==
    /\ Returned("extract")
    /\ arg.topLeft =
          <<"D","a","v","e"," ","M","a","t","t","h","e","w","s"," ","B","a",
            "n","d","\n","T","r","i","p","p","i","n","g"," ","B","i","l",
            "l","i","e","s","\n","C","h","a","r","t","e","r",":"," ","C",
            "u","s","t","o","m">>
    /\ arg.center = <<"4","4","7","2","5","3","\n","S","t","a","r","s",":"," ","4">>
    /\ arg.players =
          <<"A","_","H","o","l","e","_","P","r","o","\n","E","x","p","e",
            "r","t","\n","6","8","5","0","8","\n","8","1",".","0","%","\n",
            "M","i","s","s","e","s",":"," ","0","\n","C","o","m","b","o",
            ":"," ","1","0","0">>
    => /\ out.val.artist =
             <<"D","a","v","e"," ","M","a","t","t","h","e","w","s"," ","B",
               "a","n","d">>
       /\ out.val.songName =
             <<"T","r","i","p","p","i","n","g"," ","B","i","l","l","i","e",
               "s">>
       /\ out.val.charter = <<<<"C","u","s","t","o","m">>>>
       /\ out.val.totalScore = <<<<"4","4","7","2","5","3">>>>
       /\ out.val.starsAchieved = <<<<"4">>>>
       /\ Len(out.val.players) = 1
       /\ out.val.players[1].name = <<"A","_","H","o","l","e","_","P","r","o">>
       /\ out.val.players[1].difficulty = <<<<"E","x","p","e","r","t">>>>
       /\ out.val.players[1].score = <<<<"6","8","5","0","8">>>>
       /\ out.val.players[1].accuracy =
             <<[whole |-> <<"8","1">>, decimals |-> <<>>]>>
       /\ out.val.players[1].misses = <<<<"0">>>>
       /\ out.val.players[1].combo = <<<<"1","0","0">>>>

\* extraction has run on the texts of the example and found one player
C16_Witness ==
    /\ Returned("extract")
    /\ arg.topLeft =
          <<"D","a","v","e"," ","M","a","t","t","h","e","w","s"," ","B","a",
            "n","d","\n","T","r","i","p","p","i","n","g"," ","B","i","l",
            "l","i","e","s","\n","C","h","a","r","t","e","r",":"," ","C",
            "u","s","t","o","m">>
    /\ arg.center = <<"4","4","7","2","5","3","\n","S","t","a","r","s",":"," ","4">>
    /\ Len(arg.players) = 50
    /\ Len(out.val.players) = 1
    /\ out.val.players[1].combo # <<>>

\* the file of the call opens and decodes as a PNG image, and its name has
\* the extension of one
DecodablePNG(a) ==
    /\ a.stat /\ a.open /\ a.png
    /\ ToLower(Ext(a.path)) = <<".","p","n","g">>

\* how many of artist, songName, totalScore and players the record r lacks
Missing(r) ==
    Cardinality({f \in {"artist", "songName", "totalScore", "players"} :
                    r[f] = <<>>})

\* C17: for a readable, decodable PNG ParseImage returns a record and no
\* error whatever the recognised text yields; the warning is raised
\* exactly when at least 3 of artist, songName, totalScore and players are
\* missing, and the record returned is the extracted one either way.
C17_DegradedRecordReturned ==
    Returned("ParseImage") /\ DecodablePNG(arg) =>
        /\ out.val.ok
        /\ out.val.warning <=> Missing(out.val.record) >= 3
        /\ \A f \in DOMAIN Extraction(arg) :
              out.val.record[f] = Extraction(arg)[f]
        /\ out.val.record.createdAt = ResolveCreatedAt(arg).createdAt

\* a decodable PNG in which only the artist was recognised: the warning
\* was raised and the record returned
C17_Witness ==
    /\ Returned("ParseImage")
    /\ DecodablePNG(arg)
    /\ out.val.ok
    /\ out.val.warning
    /\ out.val.record.artist # <<>>
    /\ Missing(out.val.record) = 3

\* the file that t handles is in the failed directory and nowhere else
RoutedToFailed(t) ==
    /\ InDir(FailedPath, cur[t])
    /\ ~InDir(ProcessedPath, cur[t])
    /\ ~fs[watchDir][cur[t]].exists

\* C18: a watched file with an allowed extension other than .png always
\* fails in the handler (ParseImage returns an error and no record, so no
\* score is stored for it), and when a failed directory is configured and
\* the relocation reports no error the file is in the failed directory and
\* no longer in the watch directory.
C18_NonPNGRoutedToFailed ==
    [][\A t \in Threads :
          (/\ pc[t] # "ret" /\ pc'[t] = "ret"
           /\ isImageFile(cur[t]) /\ ~isPNG(PathOf(cur[t])))
              => /\ res'[t] = "err"
                 /\ (failedDir # NoDir /\ mv'[t].err = "nil") =>
                       RoutedToFailed(t)']_vars

\* C19: for every line that isNumeric accepts, the line stripped of its
\* non-digit characters is accepted again and denotes the same digits, and
\* cleaning it a second time leaves it unchanged.
C19_NumericIdempotent ==
    Returned("reclean") /\ out.first.numeric =>
        /\ out.val.numeric
        /\ out.val.cleaned = out.first.cleaned
        /\ out.first.cleaned # <<>>
        /\ \A i \in DOMAIN out.first.cleaned : IsDigit(out.first.cleaned[i])
        /\ ParseInt(out.val.cleaned) = ParseInt(out.first.cleaned)

\* a line with a separator was accepted and has been cleaned twice
C19_Witness ==
    /\ Returned("reclean")
    /\ out.first.numeric
    /\ Len(out.first.cleaned) < Len(arg.line)
    /\ Len(out.first.cleaned) > 1

\* the text s has the lower-case word w somewhere, in any letter case
Mentions(s, w) ==
    \E i \in 1..(Len(s) - Len(w) + 1) :
        \A k \in 1..Len(w) : ToLowerChar(s[i + k - 1]) = w[k]

\* C20: a text that mentions expert, hard, medium or easy in any letter
\* case is mapped to Expert, Hard, Medium or Easy, the first of these that
\* it mentions in the order expert, hard, medium, easy; a text that
\* mentions none is returned unchanged; normalizing the result again
\* changes nothing.
C20_DifficultyNormalized ==
    /\ Returned("normalize") =>
          out.val =
             IF Mentions(arg.text, <<"e","x","p","e","r","t">>) THEN <<"E","x","p","e","r","t">>
             ELSE IF Mentions(arg.text, <<"h","a","r","d">>) THEN <<"H","a","r","d">>
             ELSE IF Mentions(arg.text, <<"m","e","d","i","u","m">>) THEN <<"M","e","d","i","u","m">>
             ELSE IF Mentions(arg.text, <<"e","a","s","y">>) THEN <<"E","a","s","y">>
             ELSE arg.text
    /\ Returned("renormalize") => out.val = out.first

\* a text that mentions easy before expert has been normalized twice
C20_Witness ==
    /\ Returned("renormalize")
    /\ Mentions(arg.text, <<"e","a","s","y">>)
    /\ Mentions(arg.text, <<"e","x","p","e","r","t">>)
    /\ arg.text[1] \in {"e", "E"} /\ arg.text[2] \in {"a", "A"}
    /\ out.val = <<"E","x","p","e","r","t">>

\* the positions of s that hold no white space
Inked(s) == {i \in DOMAIN s : s[i] \notin Spaces}

\* s without the white space around it
Core(s) ==
    IF Inked(s) = {} THEN <<>>
    ELSE SubSeq(s, CHOOSE i \in Inked(s) : \A j \in Inked(s) : i <= j,
                SetMax(Inked(s)))

\* C21: isPlayerSeparator returns true exactly for the lines that, once
\* the white space around them is removed, are empty or begin with three
\* dashes; dashes in the middle of a line, or fewer than three at its
\* beginning, do not make it a separator.
C21_SeparatorLines ==
    Returned("isPlayerSeparator") =>
        (out.val <=>
            \/ Core(arg.line) = <<>>
            \/ /\ Len(Core(arg.line)) >= 3
               /\ \A k \in 1..3 : Core(arg.line)[k] = "-")

\* a line that begins with two dashes and has a third one later was
\* classified, and is no separator
C21_Witness ==
    /\ Returned("isPlayerSeparator")
    /\ ~out.val
    /\ Len(Core(arg.line)) >= 4
    /\ Core(arg.line)[1] = "-" /\ Core(arg.line)[2] = "-"
    /\ Core(arg.line)[4] = "-"

\* C22: the check of the handled set and the marking of the path are one
\* step taken before the handler runs: at most one goroutine is past the
\* check for a path, and a path whose handler is running (or has run, in a
\* call of handleFile not yet returned) is in the handled set.
C22_CheckAndMarkAtomic ==
    /\ \A t \in Threads : Handling(t) => PathOf(cur[t]) \in processed
    /\ \A t \in Threads, u \in Threads :
          (t # u /\ Handling(t) /\ Handling(u)) => cur[t] # cur[u]

\* C23: after the context is cancelled neither loop takes up a file: the
\* watch loop takes no event out of its select, and the poll loop takes no
\* further entry of the listing it is going through.
C23_NoNewFileAfterCancel ==
    [][\A t \in Loops :
          (pc[t] \in {"select", "iter"} /\ pc'[t] = "enter") => ~ctxDone]_vars

\* C24: a file is relocated only after the handler has returned for it; a
\* file in the processed directory has a stored score, and a file in the
\* failed directory has none, from whichever handling of it.
C24_RelocationReflectsScore ==
    /\ \A t \in Threads :
          pc[t] \in {"mvBegin", "mvRename", "mvRenamed", "mvCopied",
                     "mvRemove"}
              => /\ res[t] \in {"ok", "err"}
                 /\ mv[t].dest = TargetDir(res[t])
    /\ \A n \in Names :
          /\ InDir(ProcessedPath, n) => n \in scored
          /\ InDir(FailedPath, n) => n \notin scored

\* the moveFile call of t has returned an error
MoveFailed(t) == mv[t].err \notin {"nil", "none"}

\* C25: when the handler succeeded and the relocation to the processed
\* directory failed, handleFile reports success: the path is marked, the
\* file is still in the watch directory, and the handler is never invoked
\* for a marked path; when the handler failed and the relocation to the
\* failed directory failed, handleFile returns the handler's error: the
\* handling counts as failed and the path is not marked.
C25_RelocationErrorSwallowed ==
    [][\A t \in Threads :
          /\ (pc[t] = "ret" /\ pc'[t] # "ret" /\ MoveFailed(t)) =>
                IF res[t] = "ok"
                THEN /\ PathOf(cur[t]) \in processed'
                     /\ state'[cur[t]] = "Processed"
                     /\ fs[watchDir][cur[t]].exists
                ELSE /\ processed' = processed
                     /\ state'[cur[t]] = "Failed"
          /\ (pc[t] = "enter" /\ pc'[t] = "handler") =>
                PathOf(cur[t]) \notin processed]_vars

\* t is in a moveFile call that found its source at entry, or has just
\* returned from one
Moving(t) ==
    \/ pc[t] \in {"mvRename", "mvRenamed", "mvCopied", "mvRemove"}
    \/ pc[t] = "ret" /\ mv[t].orig # <<>>

\* directory d holds the file that t is moving, with all the bytes it had
\* when the call began
Holds(d, t) ==
    /\ fs[d][cur[t]].exists
    /\ IsPrefix(mv[t].orig, fs[d][cur[t]].data)

\* C26: moveFile never loses the file: throughout a call that found the
\* source, the file with the content it had at entry is in the watch
\* directory or in a destination directory; and the copy fallback removes
\* the source only while the destination exists with the size the source
\* had.
C26_MoveNeverLosesFile ==
    [][\A t \in Threads :
          /\ Moving(t)' => (\E d \in DirSet : Holds(d, t))'
          /\ (pc[t] = "mvRemove" /\ Src(t).exists /\ ~Src(t)'.exists) =>
                /\ Dest(t).exists
                /\ Len(Dest(t).data) = mv[t].size]_vars

\* nothing has been handled and no loop has been started
Untouched ==
    /\ \A t \in Loops : pc[t] = "idle"
    /\ \A n \in Names : state[n] = "None"
    /\ processed = {}
    /\ scored = {}

\* C27: when the subscription to the watch directory cannot be
\* established, Start returns an error: no scan, no loop, no handler call.
\* When the listing of the existing files fails, Start handles none of
\* them, starts both loops and returns success.
C27_StartWithoutSubscriptionFails ==
    /\ (~subscribed /\ pc["Start"] \notin {"start", "errMkdir"}) =>
          /\ pc["Start"] = "errAdd"
          /\ entries["Start"] = <<>>
          /\ Untouched
    /\ pc["Start"] = "launchUnscanned" => Untouched
    /\ pc["Start"] = "doneUnscanned" => \A t \in Loops : pc[t] # "idle"

\* Start has returned the error of watcher.Add with an image in the watch
\* directory
C27_Witness ==
    /\ pc["Start"] = "errAdd"
    /\ \E n \in existing : isImageFile(n)

\* C28: after Watcher.Close has returned no background loop takes up a
\* further file for the handler, whether or not the context is cancelled.
C28_NoNewFileAfterClose ==
    [][\A t \in Loops :
          (pc[t] \in {"select", "iter"} /\ pc'[t] = "enter") => ~closed]_vars

\* C29: when the handler runs for two files at once, the text recognized
\* for a region of a file is the text written in that region of that file.
C29_OwnRegionText ==
    \A t \in Callers : \A i \in 1..Len(out.text[t]) :
        out.text[t][i] = arg.img[t][OcrRegions[i]]

\* the positions in s at which a run of exactly n digits begins: no digit
\* before it and none after it
ExactRuns(s, n) ==
    {i \in Runs(s, n) :
        /\ i = 1 \/ ~IsDigit(s[i - 1])
        /\ i + n > Len(s) \/ ~IsDigit(s[i + n])}

\* C30: the resolver tries the first run of exactly 14 digits of the name
\* and nothing else: it returns the instant that run writes when it is a
\* date-time, and fails when it is not or when the name has no such run; a
\* longer run of digits is not taken as a timestamp.
C30_ExactRunTimestamp ==
    LET s == TrimExt(Base(arg.path))
        r == ExactRuns(s, 14)
        first == CHOOSE i \in r : \A j \in r : i <= j
        w == SubSeq(s, first, first + 13)
    IN Returned("parseTimestampFromFilename") =>
          IF r # {} /\ IsDateTime(Fields(w))
          THEN out.val = [ok |-> TRUE, time |-> Fields(w)]
          ELSE ~out.val.ok

\* the record holds nothing that is read in region r
NothingFrom(r, rec) ==
    IF r = "topLeft"
    THEN rec.artist = <<>> /\ rec.songName = <<>> /\ rec.charter = <<>>
    ELSE IF r = "center"
    THEN rec.totalScore = <<>> /\ rec.starsAchieved = <<>>
    ELSE rec.players = <<>>

ZeroArea(region) == Dx(region.bounds) = 0 \/ Dy(region.bounds) = 0

\* C31: for every size of the image, a region without area is read as the
\* empty text without the OCR client being used, its fields stay empty,
\* and ParseImage returns a record.
C31_ZeroAreaRegionIsEmptyText ==
    Returned("regions") =>
        /\ out.val.ok
        /\ \A r \in Range(OcrRegions) :
              /\ Dx(out.val.region[r].bounds) >= 0
              /\ Dy(out.val.region[r].bounds) >= 0
              /\ ZeroArea(out.val.region[r]) =>
                    /\ ~out.val.read[r].ocr
                    /\ out.val.read[r].text = <<>>
                    /\ NothingFrom(r, out.val.record)

\* an image with pixels whose top-left and center regions have no area
\* and whose players region is read
C31_Witness ==
    /\ Returned("regions")
    /\ Dx(arg.img) > 0 /\ Dy(arg.img) > 0
    /\ ZeroArea(out.val.region["topLeft"])
    /\ ZeroArea(out.val.region["center"])
    /\ out.val.read["players"].ocr
    /\ out.val.record.players # <<>>

\* a separator line of the players text: blank, or beginning with ---
SeparatorLine(l) ==
    \/ TrimSpace(l) = <<>>
    \/ HasPrefix(TrimSpace(l), <<"-","-","-">>)

\* a line that is taken as the name of a player whose name is not set
NameLine(l) == TrimSpace(l) # <<>> /\ ~isNumeric(l) /\ ~SeparatorLine(l)

\* line k of ls is the only separator and divides ls into the lines of two
\* players, each beginning with a name
TwoBlocks(ls, k) ==
    /\ 1 < k /\ k < Len(ls)
    /\ \A j \in DOMAIN ls : SeparatorLine(ls[j]) <=> j = k
    /\ NameLine(ls[1])
    /\ NameLine(ls[k + 1])

\* C32: a separator line (blank, or beginning with ---) between the lines
\* of two players closes the block of the first: the players are emitted
\* as two records in the order of the text, each made of its own lines.
C32_SeparatorClosesBlock ==
    Returned("extractPlayers") =>
        \A k \in DOMAIN arg.lines :
            TwoBlocks(arg.lines, k) =>
                out.val =
                    extractPlayers(JoinLines(SubSeq(arg.lines, 1, k - 1)))
                    \o extractPlayers(JoinLines(SubSeq(arg.lines, k + 1,
                                                       Len(arg.lines))))

\* the fields of a player record that are set
FieldsSet(p) == {f \in DOMAIN p : p[f] # <<>>}

\* the number of fields set in the records ps
RECURSIVE FieldCount(_)
FieldCount(ps) ==
    IF ps = <<>> THEN 0
    ELSE Cardinality(FieldsSet(ps[1])) + FieldCount(Tail(ps))

\* C33: every line is consumed by one rule, so a line sets at most one
\* field: the emitted records have no more fields set than the text has
\* lines that are not blank.
C33_OneFieldPerLine ==
    Returned("extractPlayers") =>
        FieldCount(out.val) <= Len(filterEmpty(arg.lines))

\* the lines ls are the block of one player: a name, then lines that are
\* no separators
OneBlock(ls) ==
    /\ ls # <<>>
    /\ NameLine(ls[1])
    /\ \A j \in DOMAIN ls : ~SeparatorLine(ls[j])

\* C34: in the block of one player the first difficulty line sets the
\* difficulty and a later difficulty line does not change it.
C34_DifficultySetOnce ==
    (Returned("extractPlayers") /\ OneBlock(arg.lines)) =>
        LET d == {j \in 2..Len(arg.lines) : NamesDifficulty(arg.lines[j])}
            first == CHOOSE j \in d : \A i \in d : j <= i
        IN d # {} =>
              /\ Len(out.val) = 1
              /\ out.val[1].difficulty =
                    <<normalizeDifficulty(arg.lines[first])>>

\* the lines of ls after the name that are purely numeric with more than
\* 3 digits
ScoreLines(ls) ==
    {j \in 2..Len(ls) : isNumeric(ls[j]) /\ Len(Cleaned(ls[j])) > 3}

\* C35 as stated: in the block of one player the score is the first purely
\* numeric line with more than 3 digits; shorter numeric lines never set
\* it and later lines never overwrite it.
C35_FirstNumericLineIsScore ==
    (Returned("extractPlayers") /\ OneBlock(arg.lines)) =>
        LET c == ScoreLines(arg.lines)
            first == CHOOSE j \in c : \A i \in c : j <= i
        IN /\ Len(out.val) = 1
           /\ out.val[1].score =
                 IF c = {} THEN <<>>
                 ELSE <<Canonical(Cleaned(arg.lines[first]))>>

\* C35, amended: the score is the first purely numeric line with more than
\* 3 digits whose value is at most 2^63 - 1; a line with a larger value is
\* passed over, shorter numeric lines never set the score and later lines
\* never overwrite it.
C35_FirstNumericLineInRangeIsScore ==
    (Returned("extractPlayers") /\ OneBlock(arg.lines)) =>
        LET c == {j \in ScoreLines(arg.lines) :
                     ParseInt(Cleaned(arg.lines[j])).ok}
            first == CHOOSE j \in c : \A i \in c : j <= i
        IN /\ Len(out.val) = 1
           /\ out.val[1].score =
                 IF c = {} THEN <<>>
                 ELSE <<Canonical(Cleaned(arg.lines[first]))>>

\* a block with a numeric line beyond 64 bits, then a grouped score, then
\* a further score: the grouped one is the score
C35_Witness ==
    /\ Returned("extractPlayers")
    /\ OneBlock(arg.lines)
    /\ Len(arg.lines) = 4
    /\ ~ParseInt(Cleaned(arg.lines[2])).ok
    /\ arg.lines[3] = <<"1",",","2","3","4">>
    /\ arg.lines[4] = <<"6","8","5","0","8">>
    /\ out.val[1].score = << <<"1","2","3","4">> >>

\* the lines of the text as the loop of extractPlayers sees them
Seen(ls) == filterEmpty(ls)

\* C36: every emitted record has a name, the names are lines of the text
\* that are not numeric, in the order of the text, and a text without such
\* a line yields no record.
C36_PlayersNamedInOrder ==
    Returned("extractPlayers") =>
        LET ls == Seen(arg.lines)
        IN /\ \A i \in DOMAIN out.val : out.val[i].name # <<>>
           /\ \E f \in [DOMAIN out.val -> DOMAIN ls] :
                 /\ \A i \in DOMAIN out.val :
                       /\ TrimSpace(ls[f[i]]) = out.val[i].name
                       /\ ~isNumeric(ls[f[i]])
                 /\ \A i, j \in DOMAIN out.val : i < j => f[i] < f[j]
           /\ (\A j \in DOMAIN ls : isNumeric(ls[j])) => out.val = <<>>

\* two records, named by the first and the last line of the text
C36_Witness ==
    /\ Returned("extractPlayers")
    /\ Len(out.val) = 2
    /\ out.val[1].name = <<"B">>
    /\ out.val[2].name = <<"A">>
    /\ out.val[1].score # <<>>

\* the lines of ls that contain 'star' in any letter case and a number
StarLines(ls) ==
    {j \in DOMAIN ls :
        /\ Contains(ToLower(ls[j]), <<"s","t","a","r">>)
        /\ FirstNumber(ls[j]) # <<>>}

\* the lines of ls that are one digit from 0 to 7
DigitLines(ls) ==
    {j \in DOMAIN ls :
        LET t == TrimSpace(ls[j])
        IN Len(t) = 1 /\ IsDigit(t[1]) /\ DigitVal(t[1]) <= 7}

\* C37: starsAchieved is the first number of the first line that contains
\* 'star' and a number; a line that is one digit from 0 to 7 is used only
\* when there is no such line, wherever the digit line stands.
C37_StarLineBeforeDigitLine ==
    Returned("extractCenterInfo") =>
        LET st == StarLines(arg.lines)
            dg == DigitLines(arg.lines)
            s1 == CHOOSE j \in st : \A i \in st : j <= i
            d1 == CHOOSE j \in dg : \A i \in dg : j <= i
        IN out.val.starsAchieved =
              IF st # {} THEN <<Canonical(FirstNumber(arg.lines[s1]))>>
              ELSE IF dg # {} THEN <<TrimSpace(arg.lines[d1])>>
              ELSE <<>>

\* line c without a leading 'charter:' in any letter case
WithoutLabel(c) ==
    IF HasPrefix(ToLower(c), <<"c","h","a","r","t","e","r",":">>)
    THEN TrimSpace(SubSeq(c, 9, Len(c)))
    ELSE c

\* C38: of the lines of the top-left text the first is the artist, the
\* second the song name and the third, without a leading 'charter:' in
\* any letter case, the charter; a missing line leaves its field empty
\* and a third line that is the label alone leaves the charter unset.
C38_CharterLabelAnyCase ==
    Returned("extract") =>
        LET ls == Lines(arg.topLeft)
            c == WithoutLabel(TrimSpace(ls[3]))
        IN /\ out.val.artist =
                 IF Len(ls) > 0 THEN TrimSpace(ls[1]) ELSE <<>>
           /\ out.val.songName =
                 IF Len(ls) > 1 THEN TrimSpace(ls[2]) ELSE <<>>
           /\ out.val.charter =
                 IF Len(ls) > 2 /\ c # <<>> THEN <<c>> ELSE <<>>

\* the image of the call is larger than a maximum and both maxima are set
TooLarge(a) ==
    /\ a.maxWidth > 0 /\ a.maxHeight > 0
    /\ (a.width > a.maxWidth \/ a.height > a.maxHeight)

\* side n is side old scaled by num / den and cut to an integer
ScaledBy(n, old, num, den) ==
    /\ n * den <= old * num
    /\ (n + 2) * den > old * num

\* C39: loadImage scales the image down only when both maxima are positive
\* and a side exceeds its maximum; both sides are scaled by the smaller of
\* maxWidth/width and maxHeight/height, so neither exceeds its maximum;
\* otherwise the image keeps its size.
C39_DownscaleWithinMaxima ==
    Returned("loadImage") =>
        IF TooLarge(arg)
        THEN LET byHeight ==
                     arg.maxHeight * arg.width < arg.maxWidth * arg.height
                 num == IF byHeight THEN arg.maxHeight ELSE arg.maxWidth
                 den == IF byHeight THEN arg.height ELSE arg.width
             IN /\ out.val.w <= arg.maxWidth
                /\ out.val.h <= arg.maxHeight
                /\ out.val.w <= arg.width
                /\ out.val.h <= arg.height
                /\ out.val.w < arg.width \/ out.val.h < arg.height
                /\ ScaledBy(out.val.w, arg.width, num, den)
                /\ ScaledBy(out.val.h, arg.height, num, den)
        ELSE out.val = [w |-> arg.width, h |-> arg.height]

\* an image that is only too high has been scaled by maxHeight/height
C39_Witness ==
    /\ Returned("loadImage")
    /\ arg.width <= arg.maxWidth
    /\ arg.height > arg.maxHeight
    /\ out.val.h = arg.maxHeight
    /\ out.val.w < arg.width
    /\ out.val.w > 0

\* the stored scores of the song with this name and artist
ScoresOf(name, artist) ==
    {k \in DOMAIN db.scores :
        db.scores[k].song = name /\ db.scores[k].artist = artist}

\* artists and songs are the distinct artists and songs of the stored
\* scores, one row each, and the charters of a song are the non-empty
\* charters of its scores, each once
GetOrCreated ==
    /\ db.artists = {db.scores[k].artist : k \in DOMAIN db.scores}
    /\ {<<r.name, r.artist>> : r \in db.songs} =
          {<<db.scores[k].song, db.scores[k].artist>> : k \in DOMAIN db.scores}
    /\ \A r, q \in db.songs :
          (r.name = q.name /\ r.artist = q.artist) => r = q
    /\ \A r \in db.songs :
          /\ Range(r.charters) =
                {db.scores[k].charter[1] :
                    k \in {j \in ScoresOf(r.name, r.artist) :
                              HasCharter(db.scores[j])}}
          /\ \A i, j \in DOMAIN r.charters :
                r.charters[i] = r.charters[j] => i = j

\* C40: every successful CreateScore call adds one score row, and after it
\* there is one artist row for each artist name, one song row for each
\* pair of song name and artist, and each song lists every non-empty
\* charter submitted for it once.
C40_GetOrCreate ==
    [][/\ (tx.pc = "commit" /\ tx'.ret = "ok") =>
             /\ Len(db'.scores) = Len(db.scores) + 1
             /\ db'.scores[Len(db'.scores)] =
                   [song |-> tx.data.song, artist |-> tx.data.artist,
                    charter |-> tx.data.charter]
             /\ GetOrCreated'
       /\ db' # db => (tx.pc = "commit" /\ tx'.ret = "ok")]_vars

\* two calls have stored scores of one song with different charters
C40_Witness ==
    /\ tx.ret = "ok"
    /\ Len(db.scores) = 2
    /\ Cardinality(db.songs) = 1
    /\ \E r \in db.songs : r.charters = <<"C", "D">>

====
